---- MODULE Spec2Model ----
(***************************************************************************)
(* A model of parsr (src/parsr.py): the mode-stacked lexer, the tree of    *)
(* parser states that explores all parses of a token stream breadth first, *)
(* and the evaluation of the completed root alternative.                   *)
(*                                                                         *)
(* A run of the model is one call of grammar.parse(text): the lexer loop   *)
(* (one step per iteration), the construction of the root state, one       *)
(* pushToken per match, and the evaluation of the result.                  *)
(***************************************************************************)
EXTENDS Integers, Sequences, FiniteSets, TLC

(***************************************************************************)
(* Bounds of the model.                                                    *)
(***************************************************************************)
\* longest input text, in characters
MaxLen == 3
\* largest From of the repeat(A, From, To) family
MaxFrom == 2
\* largest To of the repeat(A, From, To) family (-1, unbounded, is always in)
MaxTo == 2
\* nesting of state constructors that stands for the interpreter's stack limit
MaxDepth == 6

\* how often parse is called again on the same grammar
MaxParses == 1

VARIABLES
    gr,         \* the grammar instance: symbols, startSymbol, lexerStates
    text,       \* the text given to parse
    pc,         \* position of parse: "lex", "construct", "push", "done"
    pos,        \* lex: position in text
    states,     \* lex: stack of lexer states (indices into gr.lexerStates)
    tokStream,  \* lex: matches found so far
    heap,       \* the tree of parser states, root included
    pushed,     \* number of matches pushed into the root state
    outcome,    \* what parse returned or raised
    parses,     \* number of the calls of parse on gr that are over
    decl,       \* the grammar class that gr is an instance of, if it is one
    walk,       \* the last walk over the symbols of gr: getTokens, define, __copy__
    bnf         \* the repetition of a BNF text that the mergers of bnfGrammar work on

vars == <<gr, text, pc, pos, states, tokStream, heap, pushed, outcome, parses, decl, walk, bnf>>

(***************************************************************************)
(* Small helpers on sequences and finite maps (python lists and dicts).    *)
(***************************************************************************)
Contains(s, x) == \E i \in 1..Len(s) : s[i] = x

IndexOf(s, x) == CHOOSE i \in 1..Len(s) : s[i] = x /\ \A j \in 1..(i-1) : s[j] # x

\* list.remove(x): drops the first occurrence
RemoveFirst(s, x) ==
    IF ~Contains(s, x) THEN s
    ELSE LET i == IndexOf(s, x)
         IN  SubSeq(s, 1, i-1) \o SubSeq(s, i+1, Len(s))

EmptyMap == [x \in {} |-> <<>>]

Put(m, k, v) == [x \in (DOMAIN m) \cup {k} |-> IF x = k THEN v ELSE m[x]]

Del(m, k) == [x \in (DOMAIN m) \ {k} |-> m[x]]

(***************************************************************************)
(* Values computed by a parse.  str: a matched string; dict: the groupdict *)
(* of a match with a named group; list: a python list; merged: the value a *)
(* merger returned, kept as the application of the merger of symbol `key`  *)
(* to its argument.                                                        *)
(***************************************************************************)
StrVal(s) == [tag |-> "str", key |-> "", by |-> 0, str |-> s, items |-> <<>>]

DictVal(k, s) == [tag |-> "dict", key |-> k, by |-> 0, str |-> s, items |-> <<>>]

ListVal(items) == [tag |-> "list", key |-> "", by |-> 0, str |-> <<>>, items |-> items]

MergedVal(symbol, arg) == [tag |-> "merged", key |-> "", by |-> symbol, str |-> <<>>, items |-> <<arg>>]

NoVal == [tag |-> "none", key |-> "", by |-> 0, str |-> <<>>, items |-> <<>>]

(***************************************************************************)
(* Symbols.  A grammar's symbols live in a table; a symbol refers to its   *)
(* sub-symbols by index, so the graph may be cyclic, and two tokens with   *)
(* the same regexp are still two objects.                                  *)
(*   regexp: [kind, chars, group]: kind "lit" matches chars literally,     *)
(*   "plus" one or more and "star" zero or more of the character chars[1]; *)
(*   group is the name of the named group around it, "" for none.          *)
(* The merger of a symbol is an opaque function: the model keeps whether   *)
(* the symbol has one, and a value it returns as MergedVal(symbol, arg).   *)
(***************************************************************************)
Lit(chars, group) == [kind |-> "lit", chars |-> chars, group |-> group]

Plus(c) == [kind |-> "plus", chars |-> <<c>>, group |-> ""]

Star(c) == [kind |-> "star", chars |-> <<c>>, group |-> ""]

NoRegexp == Lit(<<>>, "")

token(regexp, merger) ==
    [kind |-> "token", symbols |-> <<>>, From |-> 0, To |-> 0,
     merger |-> merger, regexp |-> regexp, name |-> ""]

chain(symbols, merger) ==
    [kind |-> "chain", symbols |-> symbols, From |-> 0, To |-> 0,
     merger |-> merger, regexp |-> NoRegexp, name |-> ""]

repeat(symbol, From, To, merger) ==
    [kind |-> "repeat", symbols |-> <<symbol>>, From |-> From, To |-> To,
     merger |-> merger, regexp |-> NoRegexp, name |-> ""]

optional(symbol, merger) == repeat(symbol, 0, 1, merger)

oneOf(symbols, merger) ==
    [kind |-> "oneOf", symbols |-> symbols, From |-> 0, To |-> 0,
     merger |-> merger, regexp |-> NoRegexp, name |-> ""]

definedLater(name) ==
    [kind |-> "definedLater", symbols |-> <<>>, From |-> 0, To |-> 0,
     merger |-> FALSE, regexp |-> NoRegexp, name |-> name]

(***************************************************************************)
(* token.match(text, pos): pos counts from 0.  The result is               *)
(*   [kind |-> "none"]        the regexp does not match at pos             *)
(*   [kind |-> "ValueError"]  it matches the empty string there            *)
(*   [kind |-> "match", ...]  a matchType object                           *)
(***************************************************************************)
RECURSIVE RunLength(_, _, _)
RunLength(txt, p, c) ==
    IF p < Len(txt) /\ txt[p + 1] = c THEN 1 + RunLength(txt, p + 1, c) ELSE 0

\* length of res.group(0), or -1 when regexp.match returns None
MatchLength(regexp, txt, p) ==
    CASE regexp.kind = "lit" ->
            IF p + Len(regexp.chars) <= Len(txt)
               /\ SubSeq(txt, p + 1, p + Len(regexp.chars)) = regexp.chars
            THEN Len(regexp.chars) ELSE -1
      [] regexp.kind = "plus" ->
            IF RunLength(txt, p, regexp.chars[1]) > 0
            THEN RunLength(txt, p, regexp.chars[1]) ELSE -1
      [] OTHER -> RunLength(txt, p, regexp.chars[1])

\* a matchResult that is the groupdict whether there is a named group or not
MatchResultAllGroups(regexp, g0) == DictVal(regexp.group, g0)

\* matchResult: the groupdict, or group(0) when there is no named group
MatchResult(regexp, g0) ==
    IF regexp.group # "" THEN DictVal(regexp.group, g0) ELSE StrVal(g0)

NoMatch == [kind |-> "none", token |-> 0, text |-> <<>>, result |-> NoVal, start |-> 0, end |-> 0]

\* an empty match taken for no match
ZeroLengthIgnored == NoMatch

\* "if len(res.group(0)) == 0: raise ValueError(...)"
ZeroLengthMatch == [NoMatch EXCEPT !.kind = "ValueError"]

\* match without the test of the length: an empty match is returned like any other
matchKeepingEmpty(syms, tok, txt, p) ==
    LET n == MatchLength(syms[tok].regexp, txt, p)
    IN  IF n < 0 THEN NoMatch
        ELSE LET g0 == SubSeq(txt, p + 1, p + n)
             IN  [kind |-> "match", token |-> tok, text |-> g0,
                  result |-> MatchResult(syms[tok].regexp, g0),
                  start |-> p, end |-> p + n]

\* token.match
match(syms, tok, txt, p) ==
    LET n == MatchLength(syms[tok].regexp, txt, p)
    IN  IF n < 0 THEN NoMatch
        ELSE IF n = 0 THEN ZeroLengthMatch
        ELSE LET g0 == SubSeq(txt, p + 1, p + n)
             IN  [kind |-> "match", token |-> tok, text |-> g0,
                  result |-> MatchResult(syms[tok].regexp, g0),
                  start |-> p, end |-> p + n]

(***************************************************************************)
(* symbol.getTokens: the tokens below a symbol, in the order of the walk;  *)
(* gottenFrom, the list of the symbols already visited, is shared by the   *)
(* whole walk.  The result is [tokens, gottenFrom, err].                   *)
(***************************************************************************)
RECURSIVE getTokens(_, _, _), getTokensOfAll(_, _, _, _)
getTokens(syms, s, gottenFrom) ==
    IF Contains(gottenFrom, s)
    THEN [tokens |-> <<>>, gottenFrom |-> gottenFrom, err |-> "none"]
    ELSE CASE syms[s].kind = "token" ->
                [tokens |-> <<s>>, gottenFrom |-> Append(gottenFrom, s), err |-> "none"]
           [] syms[s].kind = "definedLater" ->
                [tokens |-> <<>>, gottenFrom |-> Append(gottenFrom, s), err |-> "NotImplementedError"]
           [] OTHER -> getTokensOfAll(syms, syms[s].symbols, 1,
                [tokens |-> <<>>, gottenFrom |-> Append(gottenFrom, s), err |-> "none"])

\* containsSymbols.__getTokens__: tokens.extend(r.getTokens(gottenFrom)) for each r
getTokensOfAll(syms, subs, i, acc) ==
    IF i > Len(subs) \/ acc.err # "none" THEN acc
    ELSE LET r == getTokens(syms, subs[i], acc.gottenFrom)
         IN  getTokensOfAll(syms, subs, i + 1,
                [tokens |-> acc.tokens \o r.tokens, gottenFrom |-> r.gottenFrom, err |-> r.err])

(***************************************************************************)
(* Lexer states and grammars.                                              *)
(***************************************************************************)
\* pushOn: the list of tokens that push this state; popOn: a token, 0 for None
lexerState(tokens, omit, pushOn, popOn) ==
    [tokens |-> tokens, omit |-> omit, pushOn |-> pushOn, popOn |-> popOn]

grammar(lexerStates, syms, startSymbol) ==
    [symbols |-> syms, startSymbol |-> startSymbol,
     lexerStates |-> lexerStates, lexerStartState |-> 1]

\* grammar.fromSymbol: one lexer state that accepts the tokens of the symbol
fromSymbol(syms, startSymbol) ==
    grammar(<<lexerState(getTokens(syms, startSymbol, <<>>).tokens, <<>>, <<>>, 0)>>,
            syms, startSymbol)

(***************************************************************************)
(* Walks over the symbols of a table that change it or make new symbols:   *)
(* __copy__ and define.  A walk is the record                              *)
(*   symbols: the table; visited: the symbols the walk was carried out on, *)
(*   in the order of the calls (for define the list definedIn); ret: the   *)
(*   symbol the last call returned; depth: the nesting of the calls; err.  *)
(***************************************************************************)
NewWalk(syms) == [symbols |-> syms, visited |-> <<>>, ret |-> 0, depth |-> 0, err |-> "none"]

\* token.__copy__, definedLater.__copy__, chain.__copy__, repeat.__copy__,
\* optional.__copy__ and oneOf.__copy__: a token is made anew from its regexp and
\* merger (and has the name token.__init__ gives it), the others copy their
\* symbols one after the other and keep their name.  No list of the symbols that
\* are copied already is kept; the interpreter's stack limit ends a walk that
\* does not end by itself
RECURSIVE copy(_, _), copyAll(_, _, _, _)
copy(w, s) ==
    CASE w.err # "none" -> w
      [] w.err = "none" /\ w.depth >= MaxDepth -> [w EXCEPT !.err = "RecursionLimit"]
      [] w.err = "none" /\ w.depth < MaxDepth /\ w.symbols[s].kind = "token" ->
           [w EXCEPT !.symbols = Append(@, [w.symbols[s] EXCEPT !.name = ""]),
                     !.visited = Append(@, s),
                     !.ret = Len(w.symbols) + 1]
      [] w.err = "none" /\ w.depth < MaxDepth /\ w.symbols[s].kind = "definedLater" ->
           [w EXCEPT !.symbols = Append(@, w.symbols[s]),
                     !.visited = Append(@, s),
                     !.ret = Len(w.symbols) + 1]
      [] OTHER ->
           copyAll([w EXCEPT !.visited = Append(@, s), !.depth = @ + 1], s, 1, <<>>)

\* "[i.__copy__() for i in self.symbols]" and the call of the constructor with it
copyAll(w, s, i, copies) ==
    CASE w.err # "none" -> w
      [] w.err = "none" /\ i > Len(w.symbols[s].symbols) ->
           [w EXCEPT !.symbols = Append(@, [w.symbols[s] EXCEPT !.symbols = copies]),
                     !.ret = Len(w.symbols) + 1,
                     !.depth = @ - 1]
      [] OTHER ->
           LET c == copy(w, w.symbols[s].symbols[i])
           IN  copyAll(c, s, i + 1, Append(copies, c.ret))

\* symbol.define with token.__define__, definedLater.__define__ and
\* containsSymbols.__define__; w.visited is definedIn
RECURSIVE define(_, _, _, _), defineAll(_, _, _, _, _, _)
define(w, s, name, symbol) ==
    CASE Contains(w.visited, s) -> w
      [] ~Contains(w.visited, s) /\ w.symbols[s].kind \in {"token", "definedLater"} ->
           [w EXCEPT !.visited = Append(@, s)]
      [] OTHER ->
           defineAll([w EXCEPT !.visited = Append(@, s)], s, w.symbols[s].symbols, 1,
                     name, symbol)

\* "for r in [i for i in self.symbols]": the symbol r of the list as it was is
\* replaced where it is first found in the list as it is, or the walk goes on in r
defineAll(w, s, subs, i, name, symbol) ==
    CASE i > Len(subs) -> w
      [] /\ i <= Len(subs)
         /\ w.symbols[subs[i]].kind = "definedLater"
         /\ w.symbols[subs[i]].name = name ->
           defineAll([w EXCEPT !.symbols[s].symbols[IndexOf(w.symbols[s].symbols, subs[i])] =
                                   symbol],
                     s, subs, i + 1, name, symbol)
      [] OTHER -> defineAll(define(w, subs[i], name, symbol), s, subs, i + 1, name, symbol)

(***************************************************************************)
(* A grammar that is declared as a class.  The symbols its attributes are  *)
(* made of live in a table like the symbols of a grammar; a symbol that is *)
(* named by a string is a definedLater in it (the constructors of chain,   *)
(* repeat and oneOf make one of every string), a symbol that is given as   *)
(* an object is the index of that object.                                  *)
(*   attrs: the attributes that are symbols, [name, symbol], in the order  *)
(*   of dir(self), which is the order of the names;                        *)
(*   lexStates: the attributes that are lexState objects, in that order,   *)
(*   with names of tokens in tokens, omit and pushOn, and in popOn ("" for *)
(*   None).                                                                *)
(***************************************************************************)
lexState(name, tokens, omit, pushOn, popOn) ==
    [name |-> name, tokens |-> tokens, omit |-> omit, pushOn |-> pushOn, popOn |-> popOn]

attribute(name, symbol) == [name |-> name, symbol |-> symbol]

grammarClass(syms, attrs, lexStates) ==
    [symbols |-> syms, attrs |-> attrs, lexStates |-> lexStates]

\* no class: the grammar was made by grammar(lexerStates, startSymbol)
NoClass == grammarClass(<<>>, <<>>, <<>>)

\* no walk was made
NoWalk == [op |-> "none", symbol |-> 0, visited |-> <<>>, tokens |-> <<>>, ret |-> 0,
           err |-> "none"]

\* self.definedSymbols[name], 0 when the name is no key of it
Defined(definedSymbols, name) ==
    IF \E i \in 1..Len(definedSymbols) : definedSymbols[i].name = name
    THEN definedSymbols[CHOOSE i \in 1..Len(definedSymbols) :
                            definedSymbols[i].name = name].symbol
    ELSE 0

\* "for key2, item2 in self.definedSymbols.viewitems(): item2.define(key, item);
\* item.define(key2, item2)" from entry j on.  The order of a dict is not defined;
\* every pair of defined symbols is gone through whatever it is, in the model in
\* the order of the definitions
RECURSIVE defineBoth(_, _, _, _, _)
defineBoth(syms, definedSymbols, j, key, item) ==
    IF j > Len(definedSymbols) THEN syms
    ELSE defineBoth(
             define(NewWalk(define(NewWalk(syms), definedSymbols[j].symbol,
                                   key, item).symbols),
                    item, definedSymbols[j].name, definedSymbols[j].symbol).symbols,
             definedSymbols, j + 1, key, item)

\* the instance while grammar.__init__ runs
NewInstance(cls) ==
    [symbols |-> cls.symbols, definedSymbols |-> <<>>, startSymbol |-> 0,
     lexerStates |-> <<>>, lexerStartState |-> 0, err |-> "none"]

\* one turn of the loop of initSymbols with the copy c of the attribute
registered(inst, key, c) ==
    CASE c.err = "RecursionLimit" -> [inst EXCEPT !.err = "RuntimeError"]
      [] OTHER ->
           [inst EXCEPT
               !.symbols = defineBoth([c.symbols EXCEPT ![c.ret].name = key],
                                      Append(inst.definedSymbols, attribute(key, c.ret)),
                                      1, key, c.ret),
               !.definedSymbols = Append(@, attribute(key, c.ret)),
               !.startSymbol = IF key = "startSymbol" THEN c.ret ELSE @]

\* grammar.initSymbols, from attribute i on
RECURSIVE initSymbols(_, _, _)
initSymbols(inst, attrs, i) ==
    CASE inst.err # "none" -> inst
      [] inst.err = "none" /\ i > Len(attrs) -> inst
      [] OTHER ->
           initSymbols(registered(inst, attrs[i].name,
                                  copy(NewWalk(inst.symbols), attrs[i].symbol)),
                       attrs, i + 1)

\* getToken of grammar.initLexerStates for every name of a list: the name is
\* defined and the symbol is a token
AllTokens(inst, names) ==
    \A i \in 1..Len(names) :
        /\ Defined(inst.definedSymbols, names[i]) # 0
        /\ inst.symbols[Defined(inst.definedSymbols, names[i])].kind = "token"

\* the tokens that the names of a list are defined as
TokensNamed(inst, names) ==
    [i \in 1..Len(names) |-> Defined(inst.definedSymbols, names[i])]

\* grammar.initLexerStates, from lexState i on, and "if not hasattr(self,
\* "lexerStartState"): raise TypeError" after the loop
RECURSIVE initLexerStates(_, _, _)
initLexerStates(inst, lexStates, i) ==
    CASE inst.err # "none" -> inst
      [] inst.err = "none" /\ i > Len(lexStates) ->
           IF inst.lexerStartState = 0 THEN [inst EXCEPT !.err = "TypeError"] ELSE inst
      [] /\ inst.err = "none" /\ i <= Len(lexStates)
         /\ ~AllTokens(inst, lexStates[i].omit \o lexStates[i].tokens \o lexStates[i].pushOn
                                 \o (IF lexStates[i].popOn = "" THEN <<>>
                                     ELSE <<lexStates[i].popOn>>)) ->
           [inst EXCEPT !.err = "ValueError"]
      [] OTHER ->
           initLexerStates(
               [inst EXCEPT
                   !.lexerStates =
                       Append(@, lexerState(TokensNamed(inst, lexStates[i].tokens),
                                            TokensNamed(inst, lexStates[i].omit),
                                            TokensNamed(inst, lexStates[i].pushOn),
                                            IF lexStates[i].popOn = "" THEN 0
                                            ELSE Defined(inst.definedSymbols,
                                                         lexStates[i].popOn))),
                   !.lexerStartState =
                       IF lexStates[i].name = "lexerStartState" THEN Len(inst.lexerStates) + 1
                       ELSE @],
               lexStates, i + 1)

\* grammar.__init__ of a subclass that is called without arguments: initSymbols,
\* initLexerStates, and the tests of lexerStates and startSymbol (a class without
\* the attribute startSymbol has none to test)
instantiated(cls) ==
    initLexerStates(initSymbols(NewInstance(cls), cls.attrs, 1), cls.lexStates, 1)

instanceError(inst) ==
    CASE inst.err # "none" -> inst.err
      [] inst.err = "none" /\ Len(inst.lexerStates) = 0 -> "TypeError"
      [] inst.err = "none" /\ Len(inst.lexerStates) > 0 /\ inst.startSymbol = 0 ->
           "AttributeError"
      [] OTHER -> "none"

(***************************************************************************)
(* bnfGrammar: the mergers of the range of a repetition, "{n,m}*x".        *)
(* A string is a sequence of characters, a list a sequence of its items.   *)
(* The result of a token without named groups is the string it matched,    *)
(* the result of optional(s) is the list of the results of s, with no item *)
(* or one, and the result of a chain is the list of the results of its     *)
(* symbols.                                                                *)
(***************************************************************************)
\* the digits a number of a BNF text is written with, and what they stand for
Digit == ("0" :> 0) @@ ("1" :> 1) @@ ("2" :> 2)

\* int(s) of a string: the number that the digits stand for, ValueError for the
\* empty string and for a string with a character that is no digit
RECURSIVE intOf(_, _, _)
intOf(s, i, acc) ==
    IF i > Len(s) THEN acc ELSE intOf(s, i + 1, 10 * acc + Digit[s[i]])

int(s) ==
    IF s = <<>> \/ \E i \in 1..Len(s) : s[i] \notin DOMAIN Digit
    THEN [err |-> "ValueError", val |-> 0]
    ELSE [err |-> "none", val |-> intOf(s, 1, 0)]

\* the tuple (a, b) of two numbers, or the error of the first of them that has one
tuple(a, b) ==
    CASE a.err # "none" -> [err |-> a.err, val |-> <<>>]
      [] a.err = "none" /\ b.err # "none" -> [err |-> b.err, val |-> <<>>]
      [] OTHER -> [err |-> "none", val |-> <<a.val, b.val>>]

number(n) == [err |-> "none", val |-> n]

\* the first character of a string, as a string
first(s) == <<s[1]>>

\* bnfGrammar._fromToPart, the merger of
\* chain(["_leftSP", optional("_number"), "_delim", optional("_number"), "_rightSP"]);
\* res[i + 1] is res[i] of the source
_fromToPart(res) ==
    IF Len(res[2]) > 0
    THEN IF Len(res[4]) > 0
         THEN tuple(int(res[2][1]), int(res[4][1]))
         ELSE tuple(int(res[2][1]), number(-1))
    ELSE IF Len(res[2]) = 0 /\ Len(res[4]) = 0
         THEN tuple(number(0), number(-1))
         ELSE tuple(number(0), int(first(res[3])))

\* bnfGrammar._repeat, the merger of chain([optional("_fromToPart"), "_star", "_simpleSymbol"])
_repeat(res) ==
    IF Len(res[1]) = 0
    THEN repeat(res[3], 0, -1, FALSE)
    ELSE repeat(res[3], res[1][1][1], res[1][1][2], FALSE)

\* what the mergers work on: fromToPart is the list of the results of the chain of
\* _fromToPart, in a list with no item when the text has no range; range is the
\* result of optional("_fromToPart"); symbols is the table with the result of
\* _simpleSymbol; ret is the symbol _repeat returned
NoBnf == [fromToPart |-> <<>>, range |-> <<>>, symbols |-> <<>>, ret |-> <<>>]

(***************************************************************************)
(* The tree of parser states.  States live in heap.nodes and are named by  *)
(* their index; the root state is node 1.  A python exception is the field *)
(* err: once it is set every operation returns the heap unchanged, so the  *)
(* exception propagates to parse.  ret is the state a constructor call     *)
(* just returned; depth counts the constructors that are running.          *)
(*                                                                         *)
(* The statements of a method run one after the other on the heap: the     *)
(* heap a call leaves is the heap argument of what follows it.  An         *)
(* operation on a heap with a pending exception leaves the heap as it is.  *)
(*                                                                         *)
(* log is the record of the calls that were made on the states since the   *)
(* last call of pushToken of the root state began (since the construction  *)
(* of the root state before the first): one entry for every call of        *)
(* pushToken, addPossibility, addPossibilityNow, removePossibility,        *)
(* makeValid, makeInvalid, createNextState and fork, and for every end of  *)
(* the generator possibilities.                                            *)
(***************************************************************************)
Symbols == gr.symbols

\* parserState.__init__ and the fields the subclasses add
parserState(kind, symbol, parent) ==
    [kind |-> kind, symbol |-> symbol, parent |-> parent,
     possibilities |-> <<>>, addedPossibilities |-> <<>>,
     removedPossibilities |-> <<>>, yieldsPossibilities |-> FALSE,
     currentPositions |-> EmptyMap, results |-> EmptyMap,
     currentlyWorksOn |-> 0, result |-> NoMatch]

NewHeap ==
    [nodes |-> <<>>, err |-> "none", ret |-> 0, depth |-> 0,
     validPossibilities |-> <<>>, lastTokens |-> <<>>,
     expectedGiven |-> FALSE, expectedTokens |-> <<>>, log |-> <<>>]

\* an entry of the log: the call op on state me with the argument state; other is
\* the state the call made (fork, createNextState), cur what currentlyWorksOn was
\* (createNextState).  deferred tells whether the call was put off to the end of
\* the pass (addPossibility, removePossibility), for createNextState whether it chose
\* addPossibilityNow; live is the list _possibilities of me when createNextState
\* chose.  For fork, live and cur are results[state] and currentPositions[state] of
\* me; for a call of a state on itself, live is results[state] of its parent me.
\* The entries yield and possibilities are the first and the last step of the
\* generator possibilities of me, live is _possibilities of me at that step
Call(op, me, state, other, cur, deferred) ==
    [op |-> op, me |-> me, state |-> state, other |-> other, cur |-> cur,
     deferred |-> deferred, live |-> <<>>]

Raise(h, e) == [h EXCEPT !.err = e]

\* the state the next constructor call creates
newId(h) == Len(h.nodes) + 1

newState(h, kind, symbol, parent) ==
    [h EXCEPT !.nodes = Append(@, parserState(kind, symbol, parent)),
              !.ret = newId(h)]


\* addPossibility that never waits for the end of the pass
addPossibilityAtOnce(h, me, state) ==
    [h EXCEPT !.nodes[me].possibilities = Append(@, state),
              !.log = Append(@, Call("addPossibility", me, state, 0, 0, FALSE))]

\* parserState.addPossibility
addPossibilityBase(h, me, state) ==
    IF ~h.nodes[me].yieldsPossibilities
    THEN [h EXCEPT !.nodes[me].possibilities = Append(@, state),
                   !.log = Append(@, Call("addPossibility", me, state, 0, 0, FALSE))]
    ELSE [h EXCEPT !.nodes[me].addedPossibilities = Append(@, state),
                   !.log = Append(@, Call("addPossibility", me, state, 0, 0, TRUE))]

\* parserState.addPossibilityNow
addPossibilityNowBase(h, me, state) ==
    [h EXCEPT !.nodes[me].possibilities = Append(@, state),
              !.log = Append(@, Call("addPossibilityNow", me, state, 0, 0,
                                     h.nodes[me].yieldsPossibilities))]

\* copyResAndCurPosFor that gives the new possibility a result and no position
copyResFor(h, me, state) ==
    CASE h.nodes[me].currentlyWorksOn = 0 ->
           [h EXCEPT !.nodes[me].results = Put(@, state, <<>>)]
      [] /\ h.nodes[me].currentlyWorksOn # 0
         /\ h.nodes[me].currentlyWorksOn \notin DOMAIN h.nodes[me].results ->
           Raise(h, "KeyError")
      [] OTHER ->
           [h EXCEPT !.nodes[me].results =
                         Put(@, state, h.nodes[me].results[h.nodes[me].currentlyWorksOn])]

\* chain.stateType.copyResAndCurPosFor
copyResAndCurPosFor(h, me, state) ==
    CASE h.nodes[me].currentlyWorksOn = 0 ->
           [h EXCEPT !.nodes[me].results = Put(@, state, <<>>),
                     !.nodes[me].currentPositions = Put(@, state, 0)]
      [] /\ h.nodes[me].currentlyWorksOn # 0
         /\ \/ h.nodes[me].currentlyWorksOn \notin DOMAIN h.nodes[me].results
            \/ h.nodes[me].currentlyWorksOn \notin DOMAIN h.nodes[me].currentPositions ->
           Raise(h, "KeyError")
      [] OTHER ->
           [h EXCEPT !.nodes[me].results =
                         Put(@, state, h.nodes[me].results[h.nodes[me].currentlyWorksOn]),
                     !.nodes[me].currentPositions =
                         Put(@, state,
                             h.nodes[me].currentPositions[h.nodes[me].currentlyWorksOn])]

\* addPossibility of the root state and of chain.stateType and its subclasses
addPossibility(h, me, state) ==
    CASE h.err # "none" -> h
      [] h.err = "none" /\ h.nodes[me].kind = "root" -> addPossibilityBase(h, me, state)
      [] OTHER -> copyResAndCurPosFor(addPossibilityBase(h, me, state), me, state)

\* addPossibilityNow of chain.stateType and its subclasses
addPossibilityNow(h, me, state) ==
    CASE h.err # "none" -> h
      [] h.err = "none" /\ h.nodes[me].kind = "root" -> addPossibilityNowBase(h, me, state)
      [] OTHER -> copyResAndCurPosFor(addPossibilityNowBase(h, me, state), me, state)

\* removePossibility that never waits for the end of the pass
removePossibilityAtOnce(h, me, state) ==
    CASE ~Contains(h.nodes[me].possibilities, state) -> Raise(h, "ValueError")
      [] OTHER -> [h EXCEPT !.nodes[me].possibilities = RemoveFirst(@, state),
                            !.log = Append(@, Call("removePossibility", me, state, 0, 0, FALSE))]

\* parserState.removePossibility; list.remove raises ValueError as well
removePossibilityBase(h, me, state) ==
    CASE \/ /\ ~Contains(h.nodes[me].possibilities, state)
            /\ ~Contains(h.nodes[me].addedPossibilities, state)
         \/ /\ ~Contains(h.nodes[me].possibilities, state)
            /\ ~h.nodes[me].yieldsPossibilities ->
           Raise(h, "ValueError")
      [] /\ \/ Contains(h.nodes[me].possibilities, state)
            \/ Contains(h.nodes[me].addedPossibilities, state)
         /\ h.nodes[me].yieldsPossibilities ->
           [h EXCEPT !.nodes[me].removedPossibilities = Append(@, state),
                     !.log = Append(@, Call("removePossibility", me, state, 0, 0, TRUE))]
      [] OTHER -> [h EXCEPT !.nodes[me].possibilities = RemoveFirst(@, state),
                            !.log = Append(@, Call("removePossibility", me, state, 0, 0, FALSE))]

\* "if state in self.results: del ..." of chain.stateType.removePossibility
delResAndCurPos(h, me, state) ==
    CASE h.err # "none" -> h
      [] OTHER -> [h EXCEPT !.nodes[me].results = Del(@, state),
                            !.nodes[me].currentPositions = Del(@, state)]

\* removePossibility of the root state and of chain.stateType and its subclasses
removePossibility(h, me, state) ==
    CASE h.err # "none" -> h
      [] h.err = "none" /\ h.nodes[me].kind = "root" -> removePossibilityBase(h, me, state)
      [] OTHER -> delResAndCurPos(removePossibilityBase(h, me, state), me, state)

\* parserState.isInvalid and parserRootState.isInvalid
isInvalid(h, me) ==
    IF h.nodes[me].kind = "root"
    THEN Len(h.nodes[me].possibilities) = 0 /\ Len(h.validPossibilities) = 0
    ELSE Len(h.nodes[me].possibilities) = 0

\* "self._yieldsPossibilities = True" of parserState.possibilities
yielding(h, me) ==
    [h EXCEPT !.nodes[me].yieldsPossibilities = TRUE,
              !.log = Append(@, [Call("yield", me, 0, 0, 0, FALSE)
                                   EXCEPT !.live = h.nodes[me].possibilities])]

\* the loop "for p in self._removedPossibilities" of parserState.possibilities
RECURSIVE removeAll(_, _, _)
removeAll(poss, removed, i) ==
    IF i > Len(removed) THEN poss
    ELSE removeAll(RemoveFirst(poss, removed[i]), removed, i + 1)

\* parserState.possibilities after its last yield, up to the test of isInvalid
flushed(h, me) ==
    [h EXCEPT !.nodes[me].possibilities =
                  removeAll(h.nodes[me].possibilities \o h.nodes[me].addedPossibilities,
                            h.nodes[me].removedPossibilities, 1),
              !.nodes[me].addedPossibilities = <<>>,
              !.nodes[me].removedPossibilities = <<>>,
              !.nodes[me].yieldsPossibilities = FALSE,
              !.log = Append(@, [Call("possibilities", me, 0, 0, 0, FALSE)
                                   EXCEPT !.live = h.nodes[me].possibilities])]

\* "self.results[state].append(state)"
resultAppended(h, me, state) ==
    [h EXCEPT !.nodes[me].results[state] = Append(@, state)]

\* the log with the call op of a state on itself, which goes on to its parent
called(h, op, state) ==
    [h EXCEPT !.log =
        Append(@, [Call(op, h.nodes[state].parent, state, 0, 0, FALSE) EXCEPT !.live =
                      IF /\ h.nodes[state].parent # 0
                         /\ state \in DOMAIN h.nodes[h.nodes[state].parent].results
                      THEN h.nodes[h.nodes[state].parent].results[state]
                      ELSE <<>>])]

\* the class of the parent of a state, "none" for the root state
parentKind(h, state) ==
    IF h.nodes[state].parent = 0 THEN "none"
    ELSE h.nodes[h.nodes[state].parent].kind

RECURSIVE getState(_, _, _), chainInit(_, _, _, _, _), repeatInit(_, _, _, _, _),
          repeatInitRest(_, _), oneOfInit(_, _, _, _), oneOfInitRest(_, _, _),
          addEmptyResultToParentEventually(_, _), makeValid(_, _),
          rootSetValidPossibility(_, _, _), chainSetValidPossibility(_, _, _),
          repeatSetValidPossibility(_, _, _), repeatForkOrRemove(_, _, _),
          oneOfSetValidPossibility(_, _, _),
          createNextState(_, _, _), fork(_, _, _), forkCopy(_, _),
          makeInvalid(_, _), setInvalidPossibility(_, _, _), invalidIfEmpty(_, _),
          endPossibilities(_, _), pushToken(_, _, _), tokenPushToken(_, _, _),
          pushLoop(_, _, _, _), leafs(_, _), leafsLoop(_, _, _)

\* symbol.getState, definedLater.getState; the interpreter's stack limit
getState(h, s, parent) ==
    CASE h.err # "none" -> h
      [] h.err = "none" /\ h.depth >= MaxDepth -> Raise(h, "RecursionLimit")
      [] h.err = "none" /\ h.depth < MaxDepth /\ Symbols[s].kind = "token" ->
           newState(h, "token", s, parent)
      [] h.err = "none" /\ h.depth < MaxDepth /\ Symbols[s].kind = "chain" ->
           [chainInit([h EXCEPT !.depth = @ + 1], "chain", s, parent, TRUE)
               EXCEPT !.depth = h.depth]
      [] h.err = "none" /\ h.depth < MaxDepth /\ Symbols[s].kind = "repeat" ->
           [repeatInit([h EXCEPT !.depth = @ + 1], s, parent, TRUE, FALSE)
               EXCEPT !.depth = h.depth]
      [] h.err = "none" /\ h.depth < MaxDepth /\ Symbols[s].kind = "oneOf" ->
           [oneOfInit([h EXCEPT !.depth = @ + 1], s, parent, TRUE)
               EXCEPT !.depth = h.depth]
      [] OTHER -> Raise(h, "RuntimeError")

\* chain.stateType.__init__
chainInit(h, kind, s, parent, withInitialPossibility) ==
    CASE ~withInitialPossibility -> newState(h, kind, s, parent)
      [] OTHER ->
           [addPossibility(getState(newState(h, kind, s, parent),
                                    Symbols[s].symbols[1], newId(h)),
                           newId(h), newId(h) + 1)
               EXCEPT !.ret = newId(h)]

\* repeat.stateType.__init__
repeatInit(h, s, parent, withInitialPossibility, withEmptyResult) ==
    repeatInitRest(chainInit(h, "repeat", s, parent, withInitialPossibility),
                   withEmptyResult)

\* repeat.stateType.__init__, after the constructor of the superclass
repeatInitRest(h, withEmptyResult) ==
    CASE h.err # "none" -> h
      [] h.err = "none" /\ withEmptyResult ->
           [h EXCEPT !.nodes[h.ret].results = Put(@, 0, <<>>)]
      [] OTHER -> [addEmptyResultToParentEventually(h, h.ret) EXCEPT !.ret = h.ret]

\* _addEmptyResultToParentEventually that adds nothing: a repeat that is never valid
\* without a repetition
addNoEmptyResultToParent(h, me) == h

\* repeat.stateType._addEmptyResultToParentEventually
addEmptyResultToParentEventually(h, me) ==
    CASE /\ Cardinality(DOMAIN h.nodes[me].results) = 1
         /\ Len(h.nodes[me].results[CHOOSE k \in DOMAIN h.nodes[me].results : TRUE]) = 0
         /\ Symbols[h.nodes[me].symbol].From = 0 ->
           makeValid(addPossibility(repeatInit(h, h.nodes[me].symbol, h.nodes[me].parent,
                                               FALSE, TRUE),
                                    h.nodes[me].parent, newId(h)),
                     newId(h))
      [] OTHER -> h

\* oneOf.stateType.__init__
oneOfInit(h, s, parent, withInitialPossibility) ==
    CASE ~withInitialPossibility -> chainInit(h, "oneOf", s, parent, FALSE)
      [] OTHER -> [oneOfInitRest(chainInit(h, "oneOf", s, parent, FALSE), newId(h), 1)
                      EXCEPT !.ret = newId(h)]

\* the loop "for sym in self.symbol.symbols" of oneOf.stateType.__init__
oneOfInitRest(h, me, i) ==
    CASE h.err # "none" -> h
      [] h.err = "none" /\ i > Len(Symbols[h.nodes[me].symbol].symbols) -> h
      [] OTHER ->
           oneOfInitRest(addPossibility(getState(h, Symbols[h.nodes[me].symbol].symbols[i], me),
                                        me, newId(h)),
                         me, i + 1)

\* parserState.makeValid: "self.parent.setValidPossibility(self)", by the class
\* of the parent
makeValid(h, state) ==
    CASE h.err # "none" -> h
      [] h.err = "none" /\ parentKind(h, state) = "none" -> h
      [] h.err = "none" /\ parentKind(h, state) = "root" ->
           rootSetValidPossibility(called(h, "makeValid", state), h.nodes[state].parent, state)
      [] h.err = "none" /\ parentKind(h, state) = "chain" ->
           chainSetValidPossibility(called(h, "makeValid", state), h.nodes[state].parent, state)
      [] h.err = "none" /\ parentKind(h, state) = "repeat" ->
           repeatSetValidPossibility(called(h, "makeValid", state), h.nodes[state].parent, state)
      [] h.err = "none" /\ parentKind(h, state) = "oneOf" ->
           oneOfSetValidPossibility(called(h, "makeValid", state), h.nodes[state].parent, state)
      [] OTHER -> Raise(h, "NotImplementedError")

\* setValidPossibility of the root state without "self.removePossibility(state)"
rootSetValidKeeping(h, me, state) ==
    [h EXCEPT !.validPossibilities = Append(@, state)]

\* parserRootState.setValidPossibility
rootSetValidPossibility(h, me, state) ==
    removePossibility([h EXCEPT !.validPossibilities = Append(@, state)], me, state)

\* setValidPossibility of a chain state that takes every position for the last one
chainSetValidPossibilityAtOnce(h, me, state) ==
    CASE state \notin DOMAIN h.nodes[me].results -> Raise(h, "AssertionError")
      [] /\ state \in DOMAIN h.nodes[me].results
         /\ state \notin DOMAIN h.nodes[me].currentPositions -> Raise(h, "KeyError")
      [] OTHER ->
           makeValid(fork([resultAppended(h, me, state)
                              EXCEPT !.nodes[me].currentPositions[state] = @ + 1],
                          me, state),
                     newId(h))

\* chain.stateType.setValidPossibility
chainSetValidPossibility(h, me, state) ==
    CASE state \notin DOMAIN h.nodes[me].results -> Raise(h, "AssertionError")
      [] /\ state \in DOMAIN h.nodes[me].results
         /\ state \notin DOMAIN h.nodes[me].currentPositions -> Raise(h, "KeyError")
      [] /\ state \in DOMAIN h.nodes[me].results
         /\ state \in DOMAIN h.nodes[me].currentPositions
         /\ Len(Symbols[h.nodes[me].symbol].symbols)
                = h.nodes[me].currentPositions[state] + 1 ->
           makeValid(fork([resultAppended(h, me, state)
                              EXCEPT !.nodes[me].currentPositions[state] = @ + 1],
                          me, state),
                     newId(h))
      [] OTHER ->
           removePossibility(
               createNextState([resultAppended(h, me, state)
                                   EXCEPT !.nodes[me].currentPositions[state] = @ + 1],
                               me, state),
               me, state)

\* repeat.stateType.setValidPossibility
repeatSetValidPossibility(h, me, state) ==
    CASE state \notin DOMAIN h.nodes[me].results -> Raise(h, "KeyError")
      [] /\ state \in DOMAIN h.nodes[me].results
         /\ \/ Len(h.nodes[me].results[state]) + 1 < Symbols[h.nodes[me].symbol].To
            \/ Symbols[h.nodes[me].symbol].To = -1 ->
           repeatForkOrRemove(createNextState(resultAppended(h, me, state), me, state),
                              me, state)
      [] OTHER -> repeatForkOrRemove(resultAppended(h, me, state), me, state)

\* a repeat that forks whatever From is
repeatForkAlways(h, me, state) ==
    CASE h.err # "none" -> h
      [] h.err = "none" /\ state \notin DOMAIN h.nodes[me].results -> Raise(h, "KeyError")
      [] OTHER -> makeValid(fork(h, me, state), newId(h))

\* "if len(self.results[state]) >= self.symbol.From" of
\* repeat.stateType.setValidPossibility
repeatForkOrRemove(h, me, state) ==
    CASE h.err # "none" -> h
      [] h.err = "none" /\ state \notin DOMAIN h.nodes[me].results -> Raise(h, "KeyError")
      [] /\ h.err = "none"
         /\ state \in DOMAIN h.nodes[me].results
         /\ Len(h.nodes[me].results[state]) >= Symbols[h.nodes[me].symbol].From ->
           makeValid(fork(h, me, state), newId(h))
      [] OTHER -> removePossibility(h, me, state)

\* oneOf.stateType.setValidPossibility
oneOfSetValidPossibility(h, me, state) ==
    CASE state \notin DOMAIN h.nodes[me].results -> Raise(h, "KeyError")
      [] OTHER ->
           removePossibility(makeValid(fork(resultAppended(h, me, state), me, state),
                                       newId(h)),
                             me, state)

\* "self.currentlyWorksOn = curWorksOn"
worksOn(h, me, curWorksOn) ==
    CASE h.err # "none" -> h
      [] OTHER -> [h EXCEPT !.nodes[me].currentlyWorksOn = curWorksOn]

\* createNextState that never chooses addPossibilityNow
addNextStateNeverNow(h, me, validState, curWorksOn, nextState) ==
    CASE h.err # "none" -> h
      [] OTHER -> worksOn(addPossibility(
                              [h EXCEPT !.log = Append(@, [Call("createNextState", me, validState,
                                                                nextState, curWorksOn, FALSE)
                                                              EXCEPT !.live = h.nodes[me].possibilities])],
                              me, nextState),
                          me, curWorksOn)

\* chain.stateType.createNextState, after the next state is constructed: the choice
\* between addPossibility and addPossibilityNow, and "self.currentlyWorksOn = curWorksOn"
addNextState(h, me, validState, curWorksOn, nextState) ==
    CASE h.err # "none" -> h
      [] /\ h.err = "none"
         /\ Contains(h.nodes[me].possibilities, validState)
         /\ curWorksOn # 0
         /\ ~Contains(h.nodes[me].possibilities, curWorksOn) -> Raise(h, "ValueError")
      [] /\ h.err = "none"
         /\ Contains(h.nodes[me].possibilities, validState)
         /\ curWorksOn # 0
         /\ Contains(h.nodes[me].possibilities, curWorksOn)
         /\ IndexOf(h.nodes[me].possibilities, validState)
                > IndexOf(h.nodes[me].possibilities, curWorksOn) ->
           worksOn(addPossibilityNow(
                       [h EXCEPT !.log = Append(@, [Call("createNextState", me, validState,
                                                         nextState, curWorksOn, TRUE)
                                                       EXCEPT !.live = h.nodes[me].possibilities])],
                       me, nextState),
                   me, curWorksOn)
      [] OTHER -> worksOn(addPossibility(
                              [h EXCEPT !.log = Append(@, [Call("createNextState", me, validState,
                                                                nextState, curWorksOn, FALSE)
                                                              EXCEPT !.live = h.nodes[me].possibilities])],
                              me, nextState),
                          me, curWorksOn)

\* chain.stateType.createNextState
createNextState(h, me, validState) ==
    CASE h.err # "none" -> h
      [] h.err = "none" /\ validState \notin DOMAIN h.nodes[me].currentPositions ->
           Raise(h, "KeyError")
      [] /\ h.err = "none"
         /\ validState \in DOMAIN h.nodes[me].currentPositions
         /\ h.nodes[me].currentPositions[validState]
                >= Len(Symbols[h.nodes[me].symbol].symbols) -> Raise(h, "IndexError")
      [] OTHER ->
           addNextState(getState([h EXCEPT !.nodes[me].currentlyWorksOn = validState],
                                 Symbols[h.nodes[me].symbol].symbols[
                                     h.nodes[me].currentPositions[validState] + 1],
                                 me),
                        me, validState, h.nodes[me].currentlyWorksOn, newId(h))

\* a copy that is made as getState makes a state, with its initial possibility
forkCopyWithInitialPossibility(h, me) ==
    CASE h.nodes[me].kind = "chain" ->
           chainInit(h, "chain", h.nodes[me].symbol, h.nodes[me].parent, TRUE)
      [] h.nodes[me].kind = "repeat" ->
           repeatInit(h, h.nodes[me].symbol, h.nodes[me].parent, TRUE, TRUE)
      [] OTHER -> oneOfInit(h, h.nodes[me].symbol, h.nodes[me].parent, TRUE)

\* "copy = self.__class__(self.symbol, parent = self.parent, ...,
\* withInitialPossibility = False)" of chain.stateType.fork
forkCopy(h, me) ==
    CASE h.nodes[me].kind = "chain" ->
           chainInit(h, "chain", h.nodes[me].symbol, h.nodes[me].parent, FALSE)
      [] h.nodes[me].kind = "repeat" ->
           repeatInit(h, h.nodes[me].symbol, h.nodes[me].parent, FALSE, FALSE)
      [] OTHER -> oneOfInit(h, h.nodes[me].symbol, h.nodes[me].parent, FALSE)

\* "if isinstance(self.parent, chain.stateType): assert copy in
\* self.parent.currentPositions; assert copy in self.parent.results" of
\* chain.stateType.fork
inParent(h, parent, twin) ==
    CASE h.err # "none" -> h
      [] /\ h.err = "none"
         /\ h.nodes[parent].kind # "root"
         /\ \/ twin \notin DOMAIN h.nodes[parent].currentPositions
            \/ twin \notin DOMAIN h.nodes[parent].results -> Raise(h, "AssertionError")
      [] OTHER -> h

\* chain.stateType.fork
fork(h, me, validState) ==
    CASE h.err # "none" -> h
      [] h.err = "none" /\ h.nodes[me].parent = 0 -> Raise(h, "RuntimeError")
      [] /\ h.err = "none"
         /\ h.nodes[me].parent # 0
         /\ \/ validState \notin DOMAIN h.nodes[me].results
            \/ validState \notin DOMAIN h.nodes[me].currentPositions ->
           Raise(forkCopy(h, me), "KeyError")
      [] OTHER ->
           inParent(
               [addPossibility(
                    removePossibility(
                        [forkCopy(h, me) EXCEPT
                            !.nodes[newId(h)].results =
                                Put(EmptyMap, validState, h.nodes[me].results[validState]),
                            !.nodes[newId(h)].currentPositions =
                                Put(EmptyMap, validState,
                                    h.nodes[me].currentPositions[validState])],
                        me, validState),
                    h.nodes[me].parent, newId(h))
                   EXCEPT !.ret = newId(h),
                          !.log = Append(@, [Call("fork", me, validState, newId(h), 0, FALSE)
                                               EXCEPT !.live = h.nodes[me].results[validState],
                                                      !.cur = h.nodes[me].currentPositions[validState]])],
               h.nodes[me].parent, newId(h))

\* parserState.makeInvalid
makeInvalid(h, state) ==
    CASE h.err # "none" -> h
      [] h.err = "none" /\ h.nodes[state].parent = 0 ->
           [h EXCEPT !.err = "StatesExhausted", !.expectedGiven = FALSE,
                     !.expectedTokens = <<>>]
      [] OTHER -> setInvalidPossibility(called(h, "makeInvalid", state),
                                        h.nodes[state].parent, state)

\* parserState.setInvalidPossibility
setInvalidPossibility(h, me, state) ==
    invalidIfEmpty(removePossibility(h, me, state), me)

\* "if len(self._possibilities) == 0: self.makeInvalid()"
invalidIfEmpty(h, me) ==
    CASE h.err = "none" /\ Len(h.nodes[me].possibilities) = 0 -> makeInvalid(h, me)
      [] OTHER -> h

\* possibilities without "if self.isInvalid(): self.makeInvalid()"
endPossibilitiesNeverInvalid(h, me) ==
    CASE h.err # "none" -> h
      [] OTHER -> flushed(h, me)

\* parserState.possibilities, after its last yield
endPossibilities(h, me) ==
    CASE h.err # "none" -> h
      [] h.err = "none" /\ isInvalid(flushed(h, me), me) -> makeInvalid(flushed(h, me), me)
      [] OTHER -> flushed(h, me)

\* chain.stateType.pushToken, and token.stateType.pushToken for a token state
pushToken(h, me, tok) ==
    CASE h.err # "none" -> h
      [] h.err = "none" /\ h.nodes[me].kind = "token" ->
           tokenPushToken(called(h, "pushToken", me), me, tok)
      [] /\ h.err = "none"
         /\ h.nodes[me].kind # "token"
         /\ h.nodes[me].currentlyWorksOn # 0 -> Raise(h, "AssertionError")
      [] OTHER ->
           pushLoop(yielding([h EXCEPT !.log = Append(@, Call("pushToken",
                                                              h.nodes[me].parent, me,
                                                              0, 0, FALSE))],
                             me),
                    me, 1, tok)

\* token.stateType.pushToken
tokenPushToken(h, me, tok) ==
    CASE tok.token = h.nodes[me].symbol ->
           makeValid([h EXCEPT !.nodes[me].result = tok], me)
      [] OTHER -> makeInvalid(h, me)

\* "for p in self.possibilities(): ... p.pushToken(token)" of chain.stateType.pushToken
\* and of parserRootState.pushToken, with "self.currentlyWorksOn = None" after the
\* loop of the former: the list is read again at every step, so a possibility
\* appended meanwhile is visited too
pushLoop(h, me, i, tok) ==
    CASE h.err # "none" -> h
      [] /\ h.err = "none"
         /\ i > Len(h.nodes[me].possibilities)
         /\ h.nodes[me].kind = "root" -> endPossibilities(h, me)
      [] /\ h.err = "none"
         /\ i > Len(h.nodes[me].possibilities)
         /\ h.nodes[me].kind # "root" -> worksOn(endPossibilities(h, me), me, 0)
      [] /\ h.err = "none"
         /\ i <= Len(h.nodes[me].possibilities)
         /\ Contains(h.nodes[me].removedPossibilities, h.nodes[me].possibilities[i]) ->
           pushLoop(h, me, i + 1, tok)
      [] /\ h.err = "none"
         /\ i <= Len(h.nodes[me].possibilities)
         /\ ~Contains(h.nodes[me].removedPossibilities, h.nodes[me].possibilities[i])
         /\ h.nodes[me].kind = "root" ->
           pushLoop(pushToken(h, h.nodes[me].possibilities[i], tok), me, i + 1, tok)
      [] /\ h.err = "none"
         /\ i <= Len(h.nodes[me].possibilities)
         /\ ~Contains(h.nodes[me].removedPossibilities, h.nodes[me].possibilities[i])
         /\ h.nodes[me].kind # "root"
         /\ \/ h.nodes[me].possibilities[i] \notin DOMAIN h.nodes[me].currentPositions
            \/ h.nodes[me].possibilities[i] \notin DOMAIN h.nodes[me].results ->
           Raise(h, "AssertionError")
      [] OTHER ->
           pushLoop(pushToken([h EXCEPT !.nodes[me].currentlyWorksOn =
                                                h.nodes[me].possibilities[i]],
                              h.nodes[me].possibilities[i], tok),
                    me, i + 1, tok)

\* parserState.leafs and token.stateType.leafs; the leafs are collected in lastTokens
leafs(h, me) ==
    CASE h.err # "none" -> h
      [] h.err = "none" /\ h.nodes[me].kind = "token" ->
           [h EXCEPT !.lastTokens = Append(@, me)]
      [] OTHER -> leafsLoop(yielding(h, me), me, 1)

\* "for p in self.possibilities(): for l in p.leafs(): yield l"
leafsLoop(h, me, i) ==
    CASE h.err # "none" -> h
      [] h.err = "none" /\ i > Len(h.nodes[me].possibilities) -> endPossibilities(h, me)
      [] /\ h.err = "none"
         /\ i <= Len(h.nodes[me].possibilities)
         /\ Contains(h.nodes[me].removedPossibilities, h.nodes[me].possibilities[i]) ->
           leafsLoop(h, me, i + 1)
      [] OTHER -> leafsLoop(leafs(h, h.nodes[me].possibilities[i]), me, i + 1)

\* parserRootState.__init__
rootInit(startSymbol) ==
    addPossibility(getState(newState(NewHeap, "root", startSymbol, 0), startSymbol, 1),
                   1, 2)

\* "for p in self.possibilities(): p.pushToken(token)" of parserRootState.pushToken
rootPushLoop(h, tok) ==
    CASE h.err # "none" -> h
      [] OTHER -> pushLoop(yielding(h, 1), 1, 1, tok)

\* pushToken of the root state without "self.validPossibilities = []"
rootPushTokenKeeping(h, tok) ==
    CASE Len(h.nodes[1].possibilities) = 0 ->
           [h EXCEPT !.err = "StatesExhausted",
                     !.expectedGiven = TRUE, !.expectedTokens = h.lastTokens,
                     !.log = <<>>]
      [] OTHER -> rootPushLoop(leafs([h EXCEPT !.lastTokens = <<>>, !.log = <<>>], 1), tok)

\* parserRootState.pushToken
rootPushToken(h, tok) ==
    CASE Len(h.nodes[1].possibilities) = 0 ->
           [h EXCEPT !.validPossibilities = <<>>, !.err = "StatesExhausted",
                     !.expectedGiven = TRUE, !.expectedTokens = h.lastTokens,
                     !.log = <<>>]
      [] OTHER ->
           rootPushLoop(leafs([h EXCEPT !.validPossibilities = <<>>,
                                        !.lastTokens = <<>>, !.log = <<>>], 1),
                        tok)

(***************************************************************************)
(* Evaluation: result(context) of a state.  The value is [err, val, calls] *)
(* where calls lists, in the order of the calls, the symbols whose merger  *)
(* was invoked.  The context is passed on unchanged and is left out.       *)
(***************************************************************************)
Returned(v, calls) == [err |-> "none", val |-> v, calls |-> calls]

Raised(e) == [err |-> e, val |-> NoVal, calls |-> <<>>]

\* a merger that is called again on what it returned
applyMergerTwice(h, me, r) ==
    CASE r.err = "none" /\ Symbols[h.nodes[me].symbol].merger ->
           Returned(MergedVal(h.nodes[me].symbol, MergedVal(h.nodes[me].symbol, r.val)),
                    r.calls \o <<h.nodes[me].symbol, h.nodes[me].symbol>>)
      [] OTHER -> r

\* "if self.symbol.merger: return self.symbol.merger(l, **context)" / "return l"
applyMerger(h, me, r) ==
    CASE r.err = "none" /\ Symbols[h.nodes[me].symbol].merger ->
           Returned(MergedVal(h.nodes[me].symbol, r.val),
                    Append(r.calls, h.nodes[me].symbol))
      [] OTHER -> r

\* one more element of the list "[i.result(context) for i in res]"
withResult(r, rest) ==
    CASE r.err # "none" -> r
      [] r.err = "none" /\ rest.err # "none" -> rest
      [] OTHER -> Returned(ListVal(<<r.val>> \o rest.val.items), r.calls \o rest.calls)

RECURSIVE result(_, _), resultsOfAll(_, _, _), tokenResult(_, _), chainResult(_, _),
          repeatResult(_, _), oneOfResult(_, _)

\* result, by the class of the state
result(h, me) ==
    CASE h.nodes[me].kind = "token"  -> tokenResult(h, me)
      [] h.nodes[me].kind = "chain"  -> chainResult(h, me)
      [] h.nodes[me].kind = "repeat" -> repeatResult(h, me)
      [] h.nodes[me].kind = "oneOf"  -> oneOfResult(h, me)
      [] OTHER -> Raised("NotImplementedError")

\* "[i.result(context) for i in res]", from the i-th element on
resultsOfAll(h, res, i) ==
    CASE i > Len(res) -> Returned(ListVal(<<>>), <<>>)
      [] OTHER -> withResult(result(h, res[i]), resultsOfAll(h, res, i + 1))

\* token.stateType.result
tokenResult(h, me) ==
    CASE h.nodes[me].result.kind # "match" -> Raised("AssertionError")
      [] OTHER -> applyMerger(h, me, Returned(h.nodes[me].result.result, <<>>))

\* the results of a chain state that have all the symbols of the chain
chainPosResults(h, me) ==
    {k \in DOMAIN h.nodes[me].results :
        Len(h.nodes[me].results[k]) = Len(Symbols[h.nodes[me].symbol].symbols)}

\* chain.stateType.result
chainResult(h, me) ==
    CASE chainPosResults(h, me) = {} -> Raised("NotCompleted")
      [] Cardinality(chainPosResults(h, me)) > 1 -> Raised("AmbigiousResults")
      [] OTHER ->
           applyMerger(h, me,
               resultsOfAll(h, h.nodes[me].results[CHOOSE k \in chainPosResults(h, me) : TRUE], 1))

\* repeatPosResults without the comparison with To
repeatPosResultsFrom(h, me) ==
    {k \in DOMAIN h.nodes[me].results :
        Len(h.nodes[me].results[k]) >= Symbols[h.nodes[me].symbol].From}

\* the results of a repeat state whose length is between From and To
repeatPosResults(h, me) ==
    {k \in DOMAIN h.nodes[me].results :
        /\ Len(h.nodes[me].results[k]) >= Symbols[h.nodes[me].symbol].From
        /\ \/ Len(h.nodes[me].results[k]) <= Symbols[h.nodes[me].symbol].To
           \/ Symbols[h.nodes[me].symbol].To = -1}

\* repeat.stateType.result: the longest of the admissible results
repeatResult(h, me) ==
    CASE repeatPosResults(h, me) = {} -> Raised("NotCompleted")
      [] OTHER ->
           applyMerger(h, me,
               resultsOfAll(h,
                   h.nodes[me].results[
                       CHOOSE k \in repeatPosResults(h, me) :
                           \A j \in repeatPosResults(h, me) :
                               Len(h.nodes[me].results[j]) <= Len(h.nodes[me].results[k])],
                   1))

\* the results of a oneOf state that hold a child
oneOfPosResults(h, me) ==
    {k \in DOMAIN h.nodes[me].results : Len(h.nodes[me].results[k]) = 1}

\* result of a oneOf state that returns the list of the results, as a chain does
oneOfResultAsList(h, me) ==
    CASE oneOfPosResults(h, me) = {} -> Raised("NotCompleted")
      [] OTHER ->
           applyMerger(h, me,
               resultsOfAll(h, h.nodes[me].results[CHOOSE k \in oneOfPosResults(h, me) : TRUE], 1))

\* oneOf.stateType.result: the result of the one child, not a list
oneOfResult(h, me) ==
    CASE \E k \in DOMAIN h.nodes[me].results : Len(h.nodes[me].results[k]) > 1 ->
           Raised("AssertionError")
      [] /\ \A k \in DOMAIN h.nodes[me].results : Len(h.nodes[me].results[k]) <= 1
         /\ oneOfPosResults(h, me) = {} -> Raised("NotCompleted")
      [] /\ \A k \in DOMAIN h.nodes[me].results : Len(h.nodes[me].results[k]) <= 1
         /\ Cardinality(oneOfPosResults(h, me)) > 1 -> Raised("AmbigiousResults")
      [] OTHER ->
           applyMerger(h, me,
               result(h, h.nodes[me].results[CHOOSE k \in oneOfPosResults(h, me) : TRUE][1]))

\* result of the root state without the test for more than one valid possibility
rootResultOfFirst(h) ==
    CASE Len(h.validPossibilities) = 0 -> Raised("NotCompleted")
      [] OTHER -> result(h, h.validPossibilities[1])

\* parserRootState.result
rootResult(h) ==
    CASE Len(h.validPossibilities) = 0 -> Raised("NotCompleted")
      [] Len(h.validPossibilities) > 1 -> Raised("AmbigiousResults")
      [] OTHER -> result(h, h.validPossibilities[1])

(***************************************************************************)
(* The lexer, grammar.lex.                                                 *)
(***************************************************************************)
\* the dict pushOn: the last lexer state that lists tok in its pushOn, 0 for none
pushOn(tok) ==
    LET S == {i \in 1..Len(gr.lexerStates) : Contains(gr.lexerStates[i].pushOn, tok)}
    IN  IF S = {} THEN 0 ELSE CHOOSE i \in S : \A j \in S : j <= i

\* the loop over the tokens without the break: the last token that matches is taken
RECURSIVE lastMatch(_, _, _, _)
lastMatch(toks, i, txt, p) ==
    IF i > Len(toks) THEN NoMatch
    ELSE LET m == lastMatch(toks, i + 1, txt, p)
         IN  IF m.kind = "none" THEN match(Symbols, toks[i], txt, p) ELSE m

\* "for tok in ...: match = tok.match(text, pos); if match: ... break"
RECURSIVE firstMatch(_, _, _, _)
firstMatch(toks, i, txt, p) ==
    IF i > Len(toks) THEN NoMatch
    ELSE LET m == match(Symbols, toks[i], txt, p)
         IN  IF m.kind = "none" THEN firstMatch(toks, i + 1, txt, p) ELSE m

\* the two statements the other way round: the push, then the pop of the state
\* that is on top after the push
transitionPushFirst(sts, tok) ==
    LET pushedUp == IF pushOn(tok) # 0 THEN Append(sts, pushOn(tok)) ELSE sts
    IN  IF gr.lexerStates[pushedUp[Len(pushedUp)]].popOn = tok
        THEN SubSeq(pushedUp, 1, Len(pushedUp) - 1) ELSE pushedUp

\* "if states[-1].popOn == tok: states.pop()" and "if tok in pushOn: states.append(..)"
transition(sts, tok) ==
    LET popped == IF gr.lexerStates[sts[Len(sts)]].popOn = tok
                  THEN SubSeq(sts, 1, Len(sts) - 1) ELSE sts
    IN  IF pushOn(tok) # 0 THEN Append(popped, pushOn(tok)) ELSE popped

\* the lexer state at the bottom of the stack, whatever was pushed
bottomState == gr.lexerStates[states[1]]

\* "states[-1]"
topState == gr.lexerStates[states[Len(states)]]

omitMatch == firstMatch(topState.omit, 1, text, pos)

acceptMatch == firstMatch(topState.tokens, 1, text, pos)

(***************************************************************************)
(* What parse returns or raises.                                           *)
(***************************************************************************)
NoOutcome ==
    [kind |-> "none", val |-> NoVal, calls |-> <<>>, text |-> <<>>, pos |-> 0, lexerState |-> 0,
     expectedGiven |-> FALSE, expectedTokens |-> <<>>]

Value(r) == [NoOutcome EXCEPT !.kind = "value", !.val = r.val, !.calls = r.calls]

Error(e) == [NoOutcome EXCEPT !.kind = e]

\* a LexerError that keeps the text and the lexer state only
LexerErrorWithoutPos(txt, p, onTop) ==
    [NoOutcome EXCEPT !.kind = "LexerError", !.text = txt, !.lexerState = onTop]

\* LexerError.__init__: "self.text = text; self.pos = pos; self.lexerState = lexerState"
LexerError(txt, p, onTop) ==
    [NoOutcome EXCEPT !.kind = "LexerError", !.text = txt, !.pos = p, !.lexerState = onTop]

\* parse without the except clause: the RuntimeError of the interpreter leaves parse
ParserErrorAsRaised(h) ==
    [NoOutcome EXCEPT !.kind = h.err,
                      !.expectedGiven = h.expectedGiven,
                      !.expectedTokens = h.expectedTokens]

\* "except RuntimeError as e: if ("%s" % e)[:5] == "maxim": raise InfiniteStateExpansion"
ParserError(h) ==
    [NoOutcome EXCEPT !.kind = IF h.err = "RecursionLimit" THEN "InfiniteStateExpansion" ELSE h.err,
                      !.expectedGiven = h.expectedGiven,
                      !.expectedTokens = h.expectedTokens]

(***************************************************************************)
(* The grammars and texts a run starts from.  Symbols 1 and 2 of every     *)
(* table are the tokens of src/tests.py, token("(?P<a>a)") and             *)
(* token("(?P<b>b)"); a grammar is built with grammar.fromSymbol unless it *)
(* needs lexer states of its own.                                          *)
(***************************************************************************)
tokA == token(Lit(<<"a">>, "a"), FALSE)

tokB == token(Lit(<<"b">>, "b"), FALSE)

\* the table tokA, tokB, more..., with the last symbol as start symbol
WithStart(more) == fromSymbol(<<tokA, tokB>> \o more, 2 + Len(more))

TokenGrammars ==
    { fromSymbol(<<tokA, tokB>>, 1),
      fromSymbol(<<tokA, tokB>>, 2),
      fromSymbol(<<token(Lit(<<"a">>, ""), FALSE), tokB>>, 1),
      fromSymbol(<<token(Lit(<<"a">>, ""), TRUE), tokB>>, 1),
      fromSymbol(<<token(Lit(<<"a">>, "a"), TRUE), tokB>>, 1),
      fromSymbol(<<token(Plus("a"), FALSE), tokB>>, 1),
      fromSymbol(<<token(Plus("a"), TRUE), tokB>>, 1),
      fromSymbol(<<token(Lit(<<"a", "b">>, "ab"), FALSE), tokB>>, 1),
      fromSymbol(<<token(Star("b"), FALSE), tokA>>, 1) }

ChainGrammars ==
    { WithStart(<<chain(<<1, 2>>, FALSE)>>),
      WithStart(<<chain(<<1, 2>>, TRUE)>>),
      WithStart(<<chain(<<1, 1>>, FALSE)>>),
      WithStart(<<chain(<<1>>, FALSE), chain(<<1, 2>>, FALSE), chain(<<3, 4>>, FALSE)>>),
      WithStart(<<chain(<<1, 1>>, FALSE), chain(<<1, 2>>, FALSE), chain(<<3, 4>>, TRUE)>>) }

\* repeat(tokA, From, To) for every From and To within the bounds
RepeatGrammars ==
    { WithStart(<<repeat(1, f, t, FALSE)>>) : f \in 0..MaxFrom, t \in -1..MaxTo }
    \cup { WithStart(<<repeat(1, 0, -1, TRUE)>>), WithStart(<<repeat(2, 1, 2, TRUE)>>) }

OptionalGrammars ==
    { WithStart(<<optional(1, FALSE), chain(<<3, 2>>, FALSE)>>),
      WithStart(<<optional(2, FALSE), chain(<<1, 3>>, FALSE)>>),
      WithStart(<<oneOf(<<1, 2>>, FALSE), optional(2, FALSE), chain(<<3, 4>>, FALSE)>>),
      WithStart(<<optional(2, FALSE), repeat(1, 1, -1, FALSE), chain(<<3, 4>>, FALSE)>>),
      WithStart(<<optional(1, FALSE), chain(<<3, 3>>, FALSE)>>),
      WithStart(<<optional(1, FALSE), optional(2, FALSE), chain(<<3, 4, 1>>, FALSE)>>),
      WithStart(<<optional(1, FALSE), repeat(3, 0, 2, FALSE)>>) }

OneOfGrammars ==
    { WithStart(<<oneOf(<<1, 2>>, FALSE)>>),
      WithStart(<<oneOf(<<1, 2>>, TRUE)>>),
      WithStart(<<oneOf(<<1, 1>>, FALSE)>>),
      WithStart(<<chain(<<1, 2>>, FALSE), oneOf(<<3, 1>>, FALSE)>>),
      WithStart(<<optional(1, FALSE), oneOf(<<1, 3>>, FALSE)>>),
      WithStart(<<optional(1, FALSE), oneOf(<<3, 2>>, FALSE)>>) }

\* repeat(chain([repeat(a, 1), repeat(b, 1)])), a right recursive symbol with a
\* merger (S := a S | b), and A := repeat(B), B := repeat(A)
NestedGrammars ==
    { WithStart(<<repeat(1, 1, -1, FALSE), repeat(2, 1, -1, FALSE),
                  chain(<<3, 4>>, FALSE), repeat(5, 0, -1, FALSE)>>),
      WithStart(<<chain(<<1, 4>>, FALSE), oneOf(<<3, 2>>, TRUE)>>),
      fromSymbol(<<repeat(2, 0, -1, FALSE), repeat(1, 0, -1, FALSE)>>, 1) }

\* omitTests: lexerState([tokA], token("\s+")), start symbol repeat(tokA)
OmitTestsGrammar ==
    grammar(<<lexerState(<<1>>, <<2>>, <<>>, 0)>>,
            <<token(Lit(<<"a">>, "a"), FALSE), token(Plus(" "), FALSE),
              repeat(1, 0, -1, FALSE)>>, 3)

\* stateTests: the tokens a, b, c and /b; aState matches them, bState matches them
\* and omits blanks, is pushed on b and popped on /b; the start symbol is
\* repeat(oneOf([t1, t2, t3, t4]), From = 1)
StateTestsGrammar ==
    grammar(<<lexerState(<<1, 2, 3, 4>>, <<>>, <<>>, 0),
              lexerState(<<1, 2, 3, 4>>, <<5>>, <<2>>, 4)>>,
            <<token(Lit(<<"a">>, ""), FALSE), token(Lit(<<"b">>, ""), FALSE),
              token(Lit(<<"c">>, ""), FALSE), token(Lit(<<"/", "b">>, ""), FALSE),
              token(Plus(" "), FALSE),
              oneOf(<<1, 2, 3, 4>>, FALSE), repeat(6, 1, -1, FALSE)>>, 7)

\* the texts of stateTests.parse that are longer than the texts of Texts
StateTestsTexts ==
    { <<"a", "b", " ", " ", " ", "c", " ", "/", "b", "a">>,
      <<"a", " ", "b", " ", "c", " ", "/", "b", "a">>,
      <<"a", "b", " ", "c", " ", "/", "b", " ", "a">> }

\* one lexer state whose lists name tokens that match the same text: a before a+
\* in tokens, b before b+ in omit, and b in tokens as well as in omit
OrderGrammar ==
    grammar(<<lexerState(<<1, 2, 3>>, <<3, 4>>, <<>>, 0)>>,
            <<token(Lit(<<"a">>, ""), FALSE), token(Plus("a"), FALSE),
              token(Lit(<<"b">>, ""), FALSE), token(Plus("b"), FALSE),
              repeat(1, 0, -1, FALSE)>>, 5)

\* a start state that is popped on a, and a state that is pushed and popped on b
PopStartGrammar ==
    grammar(<<lexerState(<<1, 2>>, <<>>, <<>>, 1),
              lexerState(<<1, 2>>, <<>>, <<2>>, 2)>>,
            <<tokA, tokB, repeat(1, 0, -1, FALSE)>>, 3)

\* a state that is pushed on a, also while it is the state on top, and popped on b
PushAgainGrammar ==
    grammar(<<lexerState(<<1, 2>>, <<>>, <<>>, 0),
              lexerState(<<1, 2>>, <<>>, <<1>>, 2)>>,
            <<tokA, tokB, oneOf(<<1, 2>>, FALSE), repeat(3, 0, -1, FALSE)>>, 4)

\* a state that is pushed on an omitted token and popped on a token that matches
\* nothing but in it
OmitPushGrammar ==
    grammar(<<lexerState(<<1>>, <<2>>, <<>>, 0),
              lexerState(<<1, 3>>, <<2>>, <<2>>, 3)>>,
            <<tokA, token(Lit(<<" ">>, ""), FALSE), tokB,
              oneOf(<<1, 3>>, FALSE), repeat(4, 0, -1, FALSE)>>, 5)

LexerGrammars ==
    { OmitTestsGrammar, StateTestsGrammar, OrderGrammar, PopStartGrammar,
      PushAgainGrammar, OmitPushGrammar }

\* grammars with a name that is never defined, made with lexer states of their own
\* (as a grammar class with lexState attributes is): the start symbol a x, and the
\* start symbol x
UndefinedGrammars ==
    { grammar(<<lexerState(<<1, 2>>, <<>>, <<>>, 0)>>,
              <<tokA, tokB, definedLater("x"), chain(<<1, 3>>, FALSE)>>, 4),
      grammar(<<lexerState(<<1, 2>>, <<>>, <<>>, 0)>>,
              <<tokA, tokB, definedLater("x")>>, 3) }

Grammars ==
    TokenGrammars \cup ChainGrammars \cup RepeatGrammars \cup OptionalGrammars
        \cup OneOfGrammars \cup NestedGrammars \cup LexerGrammars \cup UndefinedGrammars

\* the characters the regexps of a grammar's tokens are made of
Alphabet(g) ==
    UNION { {g.symbols[i].regexp.chars[j] : j \in 1..Len(g.symbols[i].regexp.chars)} :
              i \in {k \in 1..Len(g.symbols) : g.symbols[k].kind = "token"} }

Texts(g) ==
    UNION { [1..n -> Alphabet(g)] : n \in 0..MaxLen }
        \cup (IF g = StateTestsGrammar THEN StateTestsTexts ELSE {})

(***************************************************************************)
(* grammar.parse(text), step by step.                                      *)
(***************************************************************************)
Init ==
    /\ gr \in Grammars
    /\ text \in Texts(gr)
    /\ pc = "lex"
    /\ pos = 0
    /\ states = <<gr.lexerStartState>>
    /\ tokStream = <<>>
    /\ heap = NewHeap
    /\ pushed = 0
    /\ outcome = NoOutcome
    /\ parses = 0
    /\ decl = NoClass
    /\ walk = NoWalk
    /\ bnf = NoBnf

Raises(o) ==
    /\ pc' = "done"
    /\ outcome' = o

\* an iteration of lex that appends the match of the omit list to the stream
LexOmitAppending ==
    /\ pc = "lex" /\ pos < Len(text) /\ Len(states) > 0
    /\ omitMatch.kind = "match"
    /\ states' = transition(states, omitMatch.token)
    /\ tokStream' = Append(tokStream, omitMatch)
    /\ pos' = omitMatch.end
    /\ UNCHANGED <<gr, decl, walk, bnf, parses, text, pc, heap, pushed, outcome>>

\* lex, one iteration: a token of the omit list matches and is dropped
LexOmit ==
    /\ pc = "lex" /\ pos < Len(text) /\ Len(states) > 0
    /\ omitMatch.kind = "match"
    /\ states' = transition(states, omitMatch.token)
    /\ pos' = omitMatch.end
    /\ UNCHANGED <<gr, decl, walk, bnf, parses, text, pc, tokStream, heap, pushed, outcome>>

\* lex, one iteration: no omit token matches, a token of the tokens list does
LexAccept ==
    /\ pc = "lex" /\ pos < Len(text) /\ Len(states) > 0
    /\ omitMatch.kind = "none"
    /\ acceptMatch.kind = "match"
    /\ states' = transition(states, acceptMatch.token)
    /\ tokStream' = Append(tokStream, acceptMatch)
    /\ pos' = acceptMatch.end
    /\ UNCHANGED <<gr, decl, walk, bnf, parses, text, pc, heap, pushed, outcome>>

\* lex, one iteration that raises: no lexer state is left (self.lexerState is no
\* attribute), a token matches the empty string, or no token matches
LexRaise ==
    /\ pc = "lex" /\ pos < Len(text)
    /\ \/ /\ Len(states) = 0
          /\ Raises(Error("AttributeError"))
       \/ /\ Len(states) > 0
          /\ omitMatch.kind = "ValueError"
          /\ Raises(Error("ValueError"))
       \/ /\ Len(states) > 0
          /\ omitMatch.kind = "none"
          /\ acceptMatch.kind = "ValueError"
          /\ Raises(Error("ValueError"))
       \/ /\ Len(states) > 0
          /\ omitMatch.kind = "none"
          /\ acceptMatch.kind = "none"
          /\ Raises(LexerError(text, pos, states[Len(states)]))
    /\ UNCHANGED <<gr, decl, walk, bnf, parses, text, pos, states, tokStream, heap, pushed>>

\* lex returns tokStream
LexReturn ==
    /\ pc = "lex" /\ pos >= Len(text)
    /\ pc' = "construct"
    /\ UNCHANGED <<gr, decl, walk, bnf, parses, text, pos, states, tokStream, heap, pushed, outcome>>

\* state = parserRootState(self.startSymbol)
Construct ==
    /\ pc = "construct"
    /\ heap' = rootInit(gr.startSymbol)
    /\ IF heap'.err # "none" THEN Raises(ParserError(heap'))
       ELSE pc' = "push" /\ UNCHANGED outcome
    /\ UNCHANGED <<gr, decl, walk, bnf, parses, text, pos, states, tokStream, pushed>>

\* "for t in tokens: state.pushToken(t)", one token
PushToken ==
    /\ pc = "push" /\ pushed < Len(tokStream)
    /\ heap' = rootPushToken(heap, tokStream[pushed + 1])
    /\ IF heap'.err # "none"
       THEN Raises(ParserError(heap')) /\ UNCHANGED pushed
       ELSE pushed' = pushed + 1 /\ UNCHANGED <<pc, outcome>>
    /\ UNCHANGED <<gr, decl, walk, bnf, parses, text, pos, states, tokStream>>

\* return state.result(context)
Result ==
    /\ pc = "push" /\ pushed = Len(tokStream)
    /\ \E r \in {rootResult(heap)} :
          Raises(IF r.err # "none" THEN Error(r.err) ELSE Value(r))
    /\ UNCHANGED <<gr, decl, walk, bnf, parses, text, pos, states, tokStream, heap, pushed>>

\* a call of parse that finds the stack of lexer states as the last call left it
ParseAgainKeepingStates ==
    /\ pc = "done" /\ parses < MaxParses
    /\ parses' = parses + 1
    /\ text' \in Texts(gr)
    /\ pc' = "lex"
    /\ pos' = 0
    /\ tokStream' = <<>>
    /\ heap' = NewHeap
    /\ pushed' = 0
    /\ outcome' = NoOutcome
    /\ UNCHANGED <<gr, decl, walk, bnf, states>>

\* parse has returned or raised, and is called again on the same grammar with some
\* text: tokStream, states and pos are locals of lex and state is a local of parse,
\* so the call begins with them as the first call did
ParseAgain ==
    /\ pc = "done" /\ parses < MaxParses
    /\ parses' = parses + 1
    /\ text' \in Texts(gr)
    /\ pc' = "lex"
    /\ pos' = 0
    /\ states' = <<gr.lexerStartState>>
    /\ tokStream' = <<>>
    /\ heap' = NewHeap
    /\ pushed' = 0
    /\ outcome' = NoOutcome
    /\ UNCHANGED <<gr, decl, walk, bnf>>

Next ==
    \/ LexOmit \/ LexAccept \/ LexRaise \/ LexReturn \/ Construct \/ PushToken \/ Result
    \/ ParseAgain

Spec == Init /\ [][Next]_vars

\* lex is one sequential loop: "while pos < len(text)" goes on while it has an
\* iteration to run, and returns when it has none
FairSpec == Spec /\ WF_vars(LexOmit \/ LexAccept \/ LexRaise \/ LexReturn)


(***************************************************************************)
(* Grammars that are declared as classes, and the walks over the symbols   *)
(* of their instances.  The tokens a = token("a"), b = token("b") and      *)
(* ws = token("[ ]+") are attributes of the classes; lexerStartState is    *)
(* lexState(["a", "b"]) unless it is said otherwise.                       *)
(***************************************************************************)
StartState == lexState("lexerStartState", <<"a", "b">>, <<>>, <<>>, "")

tokenA == token(Lit(<<"a">>, ""), FALSE)

tokenB == token(Lit(<<"b">>, ""), FALSE)

\* startSymbol = chain(["a", "b"])
ByNameClass ==
    grammarClass(<<tokenA, tokenB, definedLater("a"), definedLater("b"),
                   chain(<<3, 4>>, FALSE)>>,
                 <<attribute("a", 1), attribute("b", 2), attribute("startSymbol", 5)>>,
                 <<StartState>>)

\* startSymbol = chain([a, "b"]), with the token a itself in the list
ByObjectClass ==
    grammarClass(<<tokenA, tokenB, definedLater("b"), chain(<<1, 3>>, FALSE)>>,
                 <<attribute("a", 1), attribute("b", 2), attribute("startSymbol", 4)>>,
                 <<StartState>>)

\* startSymbol = repeat(oneOf([a, b])), with both tokens themselves, a merger on
\* the repeat
BothByObjectClass ==
    grammarClass(<<tokenA, tokenB, oneOf(<<1, 2>>, FALSE), repeat(3, 0, -1, TRUE)>>,
                 <<attribute("a", 1), attribute("b", 2), attribute("startSymbol", 4)>>,
                 <<StartState>>)

\* s = oneOf([chain(["a", "s"]), "b"]); startSymbol = chain(["s"])
RecursiveClass ==
    grammarClass(<<tokenA, tokenB, definedLater("a"), definedLater("s"),
                   chain(<<3, 4>>, FALSE), definedLater("b"), oneOf(<<5, 6>>, FALSE),
                   definedLater("s"), chain(<<8>>, FALSE)>>,
                 <<attribute("a", 1), attribute("b", 2), attribute("s", 7),
                   attribute("startSymbol", 9)>>,
                 <<StartState>>)

\* p = repeat("q"); q = repeat("p"); startSymbol = chain(["p", "a"])
MutualClass ==
    grammarClass(<<tokenA, tokenB, definedLater("q"), repeat(3, 0, -1, FALSE),
                   definedLater("p"), repeat(5, 0, -1, FALSE),
                   definedLater("p"), definedLater("a"), chain(<<7, 8>>, FALSE)>>,
                 <<attribute("a", 1), attribute("b", 2), attribute("p", 4),
                   attribute("q", 6), attribute("startSymbol", 9)>>,
                 <<StartState>>)

\* startSymbol = chain(["a", "zz"]), and no attribute zz
UndefinedNameClass ==
    grammarClass(<<tokenA, tokenB, definedLater("a"), definedLater("zz"),
                   chain(<<3, 4>>, FALSE)>>,
                 <<attribute("a", 1), attribute("b", 2), attribute("startSymbol", 5)>>,
                 <<StartState>>)

\* pair = chain(["a", "b"]); startSymbol = oneOf([pair, chain([pair, pair])]), with
\* the symbol pair itself three times
SharedClass ==
    grammarClass(<<tokenA, tokenB, definedLater("a"), definedLater("b"),
                   chain(<<3, 4>>, FALSE), chain(<<5, 5>>, FALSE), oneOf(<<5, 6>>, FALSE)>>,
                 <<attribute("a", 1), attribute("b", 2), attribute("pair", 5),
                   attribute("startSymbol", 7)>>,
                 <<StartState>>)

\* lexerStartState = lexState(["a", "b"], ["ws"]); startSymbol = repeat("a")
OmitClass ==
    grammarClass(<<tokenA, tokenB, definedLater("a"), repeat(3, 0, -1, FALSE),
                   token(Plus(" "), FALSE)>>,
                 <<attribute("a", 1), attribute("b", 2), attribute("startSymbol", 4),
                   attribute("ws", 5)>>,
                 <<lexState("lexerStartState", <<"a", "b">>, <<"ws">>, <<>>, "")>>)

\* bState = lexState(["a", "b"], ["ws"], pushOn = "b", popOn = "a") beside the
\* lexerStartState; startSymbol = repeat(oneOf(["a", b]))
TwoStatesClass ==
    grammarClass(<<tokenA, tokenB, definedLater("a"), oneOf(<<3, 2>>, FALSE),
                   repeat(4, 0, -1, FALSE), token(Plus(" "), FALSE)>>,
                 <<attribute("a", 1), attribute("b", 2), attribute("startSymbol", 5),
                   attribute("ws", 6)>>,
                 <<lexState("bState", <<"a", "b">>, <<"ws">>, <<"b">>, "a"), StartState>>)

\* classes that cannot be instantiated: no lexerStartState, a lexState that names
\* a symbol that is no token, one that names nothing, and no startSymbol
BrokenClasses ==
    { grammarClass(ByNameClass.symbols, ByNameClass.attrs,
                   <<lexState("bState", <<"a", "b">>, <<>>, <<>>, "")>>),
      grammarClass(ByNameClass.symbols, ByNameClass.attrs,
                   <<lexState("lexerStartState", <<"a", "startSymbol">>, <<>>, <<>>, "")>>),
      grammarClass(ByNameClass.symbols, ByNameClass.attrs,
                   <<lexState("lexerStartState", <<"a", "b">>, <<"ws">>, <<>>, "")>>),
      grammarClass(ByNameClass.symbols,
                   <<attribute("a", 1), attribute("b", 2), attribute("ab", 5)>>,
                   <<StartState>>) }

Classes ==
    { ByNameClass, ByObjectClass, BothByObjectClass, RecursiveClass, MutualClass,
      UndefinedNameClass, SharedClass, OmitClass, TwoStatesClass } \cup BrokenClasses

\* the instance as a grammar, with the dict definedSymbols
instance(inst) ==
    [symbols |-> inst.symbols, startSymbol |-> inst.startSymbol,
     lexerStates |-> inst.lexerStates, lexerStartState |-> inst.lexerStartState,
     definedSymbols |-> inst.definedSymbols]

\* no grammar is made yet
NoGrammar == grammar(<<>>, <<>>, 0)

ClassInit ==
    /\ decl \in Classes
    /\ gr = NoGrammar
    /\ text = <<>>
    /\ pc = "class"
    /\ pos = 0
    /\ states = <<>>
    /\ tokStream = <<>>
    /\ heap = NewHeap
    /\ pushed = 0
    /\ outcome = NoOutcome
    /\ parses = 0
    /\ walk = NoWalk
    /\ bnf = NoBnf

\* the class is instantiated, and parse is called on the instance with some text
Instantiate ==
    /\ pc = "class"
    /\ IF instanceError(instantiated(decl)) # "none"
       THEN /\ Raises(Error(instanceError(instantiated(decl))))
            /\ UNCHANGED <<gr, text, states>>
       ELSE /\ gr' = instance(instantiated(decl))
            /\ text' \in Texts(gr')
            /\ pc' = "lex"
            /\ states' = <<gr'.lexerStartState>>
            /\ UNCHANGED outcome
    /\ UNCHANGED <<decl, walk, bnf, pos, tokStream, heap, pushed, parses>>

\* the walks are made on an instance before its first parse, from any symbol
Walkable == pc = "lex" /\ pos = 0 /\ text = <<>> /\ decl # NoClass /\ walk = NoWalk

\* symbol.getTokens()
GetTokens ==
    /\ Walkable
    /\ \E s \in 1..Len(gr.symbols) :
          walk' = [NoWalk EXCEPT !.op = "getTokens", !.symbol = s,
                                 !.visited = getTokens(gr.symbols, s, <<>>).gottenFrom,
                                 !.tokens = getTokens(gr.symbols, s, <<>>).tokens,
                                 !.err = getTokens(gr.symbols, s, <<>>).err]
    /\ pc' = "walked"
    /\ UNCHANGED <<gr, decl, bnf, text, pos, states, tokStream, heap, pushed, outcome, parses>>

\* the names a symbol can be defined as: the names of the definedLater of the table
UndefinedNames(syms) ==
    {syms[i].name : i \in {k \in 1..Len(syms) : syms[k].kind = "definedLater"}}

\* symbol.define(name, symbol)
Define ==
    /\ Walkable
    /\ \E s \in 1..Len(gr.symbols), name \in UndefinedNames(gr.symbols) \cup {"a"},
          symbol \in {gr.definedSymbols[i].symbol : i \in 1..Len(gr.definedSymbols)} :
          /\ gr' = [gr EXCEPT !.symbols = define(NewWalk(gr.symbols), s, name, symbol).symbols]
          /\ walk' = [NoWalk EXCEPT !.op = "define", !.symbol = s,
                         !.visited = define(NewWalk(gr.symbols), s, name, symbol).visited]
    /\ pc' = "walked"
    /\ UNCHANGED <<decl, bnf, text, pos, states, tokStream, heap, pushed, outcome, parses>>

\* what a walk that the interpreter's stack limit ended raises: RuntimeError, or,
\* when the limit is met within re.compile, the ValueError that token.__init__
\* raises in its place
LimitErrors(w) ==
    {"RuntimeError"} \cup
        (IF \E i \in 1..Len(w.visited) : w.symbols[w.visited[i]].kind = "token"
         THEN {"ValueError"} ELSE {})

\* symbol.__copy__()
Copy ==
    /\ Walkable
    /\ \E s \in 1..Len(gr.symbols) :
          /\ gr' = [gr EXCEPT !.symbols = copy(NewWalk(gr.symbols), s).symbols]
          /\ \E e \in (IF copy(NewWalk(gr.symbols), s).err = "none" THEN {"none"}
                       ELSE LimitErrors(copy(NewWalk(gr.symbols), s))) :
                walk' = [NoWalk EXCEPT !.op = "copy", !.symbol = s,
                            !.visited = copy(NewWalk(gr.symbols), s).visited,
                            !.ret = copy(NewWalk(gr.symbols), s).ret,
                            !.err = e]
    /\ pc' = "walked"
    /\ UNCHANGED <<decl, bnf, text, pos, states, tokStream, heap, pushed, outcome, parses>>

ClassNext ==
    \/ Instantiate \/ GetTokens \/ Define \/ Copy
    \/ LexOmit \/ LexAccept \/ LexRaise \/ LexReturn \/ Construct \/ PushToken \/ Result

ClassSpec == ClassInit /\ [][ClassNext]_vars
(***************************************************************************)
(* The repetitions of BNF texts: "{n,m}*x", "{n,}*x", "{,m}*x", "{,}*x"    *)
(* and "*x", as the lexer and the chains of bnfGrammar hand them to the    *)
(* mergers _fromToPart and _repeat.                                        *)
(***************************************************************************)
\* the greatest number of digits of a number of a BNF text
MaxDigits == 2

\* what the token _number matches: "\d+"
RECURSIVE NumbersOf(_)
NumbersOf(n) ==
    IF n = 0 THEN {<<>>}
    ELSE {Append(s, d) : s \in NumbersOf(n - 1), d \in DOMAIN Digit}

Numbers == UNION {NumbersOf(n) : n \in 1..MaxDigits}

\* the results of optional("_number")
OptionalNumbers == {<<>>} \cup {<<n>> : n \in Numbers}

\* the results of the symbols of the chain of _fromToPart for a range in the text
FromToParts ==
    {<< <<"{">>, low, <<",">>, high, <<"}">> >> : low \in OptionalNumbers, high \in OptionalNumbers}

\* the names x of the text
Names == {"a", "b"}

BnfInit ==
    /\ \E name \in Names, parts \in {<<>>} \cup {<<p>> : p \in FromToParts} :
          bnf = [NoBnf EXCEPT !.fromToPart = parts, !.symbols = <<definedLater(name)>>]
    /\ decl = NoClass
    /\ gr = NoGrammar
    /\ text = <<>>
    /\ pc = "bnf"
    /\ pos = 0
    /\ states = <<>>
    /\ tokStream = <<>>
    /\ heap = NewHeap
    /\ pushed = 0
    /\ outcome = NoOutcome
    /\ parses = 0
    /\ walk = NoWalk

\* the result of the chain of _fromToPart is merged; what the merger raises is
\* raised by parse
FromToPart ==
    /\ pc = "bnf" /\ bnf.fromToPart # <<>> /\ bnf.range = <<>>
    /\ IF _fromToPart(bnf.fromToPart[1]).err # "none"
       THEN /\ Raises(Error(_fromToPart(bnf.fromToPart[1]).err))
            /\ UNCHANGED bnf
       ELSE /\ bnf' = [bnf EXCEPT !.range = <<_fromToPart(bnf.fromToPart[1]).val>>]
            /\ UNCHANGED <<pc, outcome>>
    /\ UNCHANGED <<gr, decl, walk, text, pos, states, tokStream, heap, pushed, parses>>

\* the result of the chain of _repeat is merged
Repeat ==
    /\ pc = "bnf" /\ Len(bnf.range) = Len(bnf.fromToPart)
    /\ bnf' = [bnf EXCEPT !.ret = <<_repeat(<<bnf.range, <<"*">>, 1>>)>>]
    /\ pc' = "merged"
    /\ UNCHANGED <<gr, decl, walk, text, pos, states, tokStream, heap, pushed, outcome, parses>>

BnfNext == FromToPart \/ Repeat

BnfSpec == BnfInit /\ [][BnfNext]_vars
(***************************************************************************)
(* What the properties below speak about: the stream lex returned, the     *)
(* value the state of a token evaluates to, and the language of a symbol.  *)
(***************************************************************************)
\* the tokens of the matches in the stream
Stream == [i \in 1..Len(tokStream) |-> tokStream[i].token]

StartSymbol == Symbols[gr.startSymbol]

\* parse is over and lex had returned the whole stream
Parsed == pc = "done" /\ pos >= Len(text)

\* every match was pushed and the root state was asked for its result
Evaluated == Parsed /\ heap.err = "none" /\ Len(heap.nodes) > 0 /\ pushed = Len(tokStream)

\* what a merger of symbol s makes of v, v itself when s has no merger
Merged(s, v) == IF Symbols[s].merger THEN MergedVal(s, v) ELSE v

\* the value of the i-th match of the stream, as its token state evaluates it
TokenValue(i) == Merged(tokStream[i].token, tokStream[i].result)

IsToken(s) == Symbols[s].kind = "token"

\* optional(x) of a token x
IsOptionalToken(s) ==
    /\ Symbols[s].kind = "repeat" /\ Symbols[s].From = 0 /\ Symbols[s].To = 1
    /\ IsToken(Symbols[s].symbols[1])

\* how often x occurs in the sequence s
RECURSIVE Count(_, _)
Count(s, x) ==
    IF Len(s) = 0 THEN 0 ELSE (IF s[1] = x THEN 1 ELSE 0) + Count(SubSeq(s, 2, Len(s)), x)

RECURSIVE SumSeq(_)
SumSeq(s) == IF Len(s) = 0 THEN 0 ELSE s[1] + SumSeq(SubSeq(s, 2, Len(s)))

\* every symbol is built from symbols of the table that come before it
Layered ==
    \A s \in 1..Len(Symbols) :
        \A k \in 1..Len(Symbols[s].symbols) : Symbols[s].symbols[k] < s

\* the symbols below a set of symbols, in at most n steps
RECURSIVE Closure(_, _)
Closure(S, n) ==
    IF n = 0 THEN S
    ELSE Closure(S \cup UNION { {Symbols[x].symbols[k] : k \in 1..Len(Symbols[x].symbols)} :
                                  x \in S }, n - 1)

\* the symbols a derivation from s can use below s
Below(s) ==
    Closure({Symbols[s].symbols[k] : k \in 1..Len(Symbols[s].symbols)}, Len(Symbols))

\* the number of derivations of the tokens i+1..j of the stream from symbol s (for a
\* layered grammar): ChainDerivations from the symbols syms[idx..] one after the other
RECURSIVE Derivations(_, _, _), ChainDerivations(_, _, _, _)
Derivations(s, i, j) ==
    CASE Symbols[s].kind = "token" -> IF j = i + 1 /\ Stream[j] = s THEN 1 ELSE 0
      [] Symbols[s].kind = "chain" -> ChainDerivations(Symbols[s].symbols, 1, i, j)
      [] Symbols[s].kind = "oneOf" ->
           SumSeq([b \in 1..Len(Symbols[s].symbols) |->
                      Derivations(Symbols[s].symbols[b], i, j)])
      [] Symbols[s].kind = "repeat" ->
           SumSeq([n \in 1..((IF Symbols[s].To = -1 THEN j - i ELSE Symbols[s].To)
                                - Symbols[s].From + 1) |->
                      ChainDerivations([x \in 1..(Symbols[s].From + n - 1) |->
                                            Symbols[s].symbols[1]], 1, i, j)])
      [] OTHER -> 0

ChainDerivations(syms, idx, i, j) ==
    IF idx > Len(syms) THEN (IF i = j THEN 1 ELSE 0)
    ELSE SumSeq([k \in 1..(j - i + 1) |->
                    Derivations(syms[idx], i, i + k - 1)
                        * ChainDerivations(syms, idx + 1, i + k - 1, j)])

Nullable(s) == Derivations(s, 0, 0) > 0

\* no unbounded repetition of a symbol that derives the empty stream
Proper ==
    \A s \in 1..Len(Symbols) :
        (Symbols[s].kind = "repeat" /\ Symbols[s].To = -1) => ~Nullable(Symbols[s].symbols[1])

\* the symbol has a sentence
RECURSIVE Inhabited(_)
Inhabited(s) ==
    CASE Symbols[s].kind = "token" -> TRUE
      [] Symbols[s].kind = "chain" ->
           \A k \in 1..Len(Symbols[s].symbols) : Inhabited(Symbols[s].symbols[k])
      [] Symbols[s].kind = "oneOf" ->
           \E k \in 1..Len(Symbols[s].symbols) : Inhabited(Symbols[s].symbols[k])
      [] Symbols[s].kind = "repeat" ->
           /\ Symbols[s].To = -1 \/ Symbols[s].From <= Symbols[s].To
           /\ Symbols[s].From = 0 \/ Inhabited(Symbols[s].symbols[1])
      [] OTHER -> FALSE

\* the tokens i+1..j of the stream begin a sentence of symbol s (for a layered and
\* proper grammar): ChainViable for the symbols syms[idx..] one after the other
RECURSIVE Viable(_, _, _), ChainViable(_, _, _, _)
Viable(s, i, j) ==
    CASE Symbols[s].kind = "token" -> j = i \/ (j = i + 1 /\ Stream[j] = s)
      [] Symbols[s].kind = "chain" -> ChainViable(Symbols[s].symbols, 1, i, j)
      [] Symbols[s].kind = "oneOf" ->
           \E b \in 1..Len(Symbols[s].symbols) : Viable(Symbols[s].symbols[b], i, j)
      [] Symbols[s].kind = "repeat" ->
           \E c \in Symbols[s].From..(IF Symbols[s].To # -1 THEN Symbols[s].To
                                      ELSE IF Symbols[s].From > j - i THEN Symbols[s].From
                                      ELSE j - i) :
               ChainViable([x \in 1..c |-> Symbols[s].symbols[1]], 1, i, j)
      [] OTHER -> FALSE

ChainViable(syms, idx, i, j) ==
    IF idx > Len(syms) THEN i = j
    ELSE \/ /\ Viable(syms[idx], i, j)
            /\ \A k \in (idx + 1)..Len(syms) : Inhabited(syms[k])
         \/ \E k \in i..j : /\ Derivations(syms[idx], i, k) > 0
                            /\ ChainViable(syms, idx + 1, k, j)

\* the first token of the stream that begins no sentence of the start symbol together
\* with the tokens before it, 0 when there is none
FirstUnviable ==
    LET U == {i \in 1..Len(Stream) : ~Viable(gr.startSymbol, 0, i)}
    IN  IF U = {} THEN 0 ELSE CHOOSE i \in U : \A k \in U : i <= k

(***************************************************************************)
(* Properties of parse.                                                    *)
(***************************************************************************)
\* the start symbol is chain([A, B]) of two different tokens
ChainOfTwoTokens ==
    /\ StartSymbol.kind = "chain" /\ Len(StartSymbol.symbols) = 2
    /\ IsToken(StartSymbol.symbols[1]) /\ IsToken(StartSymbol.symbols[2])
    /\ StartSymbol.symbols[1] # StartSymbol.symbols[2]

\* C1: with the start symbol chain([A, B]) of two different tokens, the stream a b
\* parses to the list of the results of a and of b in this order (handed to the
\* merger of the chain when it has one), the stream a alone raises NotCompleted and
\* the stream b a raises StatesExhausted.
C1_ChainOfTwo ==
    (Parsed /\ ChainOfTwoTokens) =>
        /\ Stream = StartSymbol.symbols =>
              /\ outcome.kind = "value"
              /\ outcome.val = Merged(gr.startSymbol,
                                      ListVal(<<TokenValue(1), TokenValue(2)>>))
        /\ Stream = <<StartSymbol.symbols[1]>> => outcome.kind = "NotCompleted"
        /\ Stream = <<StartSymbol.symbols[2], StartSymbol.symbols[1]>> =>
              outcome.kind = "StatesExhausted"

\* a b was parsed by chain([A, B])
C1_Witness ==
    /\ Parsed /\ ChainOfTwoTokens /\ ~StartSymbol.merger
    /\ Stream = StartSymbol.symbols
    /\ outcome.val = ListVal(<<tokStream[1].result, tokStream[2].result>>)

\* the start symbol is repeat(A, From, To) of a token A
RepeatOfToken == StartSymbol.kind = "repeat" /\ IsToken(StartSymbol.symbols[1])

\* k tokens are within From and To of the start symbol
InRange(k) ==
    /\ StartSymbol.From <= k
    /\ k <= StartSymbol.To \/ StartSymbol.To = -1

\* C2: with the start symbol repeat(A, From, To) of a token A and a stream of k
\* tokens A, parse returns the list of the k results (handed to the merger when there
\* is one) if From <= k and (k <= To or To = -1), and raises StatesExhausted or
\* NotCompleted for every other k.
C2_RepeatInRange ==
    (Parsed /\ RepeatOfToken /\ \A i \in 1..Len(Stream) : Stream[i] = StartSymbol.symbols[1]) =>
        /\ InRange(Len(Stream)) =>
              /\ outcome.kind = "value"
              /\ outcome.val = Merged(gr.startSymbol,
                                      ListVal([i \in 1..Len(Stream) |-> TokenValue(i)]))
        /\ ~InRange(Len(Stream)) => outcome.kind \in {"StatesExhausted", "NotCompleted"}

\* two tokens were parsed by a repeat that was still open for a third
C2_Witness ==
    /\ Parsed /\ RepeatOfToken /\ StartSymbol.From = 1 /\ StartSymbol.To = -1
    /\ Len(Stream) = 2
    /\ outcome.val = ListVal(<<TokenValue(1), TokenValue(2)>>)

\* the start symbol is chain([optional(X), Y]) of tokens X and Y
OptionalFirst ==
    /\ StartSymbol.kind = "chain" /\ Len(StartSymbol.symbols) = 2
    /\ IsOptionalToken(StartSymbol.symbols[1])
    /\ IsToken(StartSymbol.symbols[2])
    /\ Symbols[StartSymbol.symbols[1]].symbols[1] # StartSymbol.symbols[2]

\* the tokens the first symbol of the start symbol begins with, when this is a token
\* or a oneOf of tokens
FirstTokens ==
    IF IsToken(StartSymbol.symbols[1]) THEN {StartSymbol.symbols[1]}
    ELSE {Symbols[StartSymbol.symbols[1]].symbols[k] :
             k \in 1..Len(Symbols[StartSymbol.symbols[1]].symbols)}

\* the start symbol is chain([P, optional(X)]) of a token X and a token or a oneOf of
\* tokens P
OptionalLast ==
    /\ StartSymbol.kind = "chain" /\ Len(StartSymbol.symbols) = 2
    /\ IsOptionalToken(StartSymbol.symbols[2])
    /\ \/ IsToken(StartSymbol.symbols[1])
       \/ /\ Symbols[StartSymbol.symbols[1]].kind = "oneOf"
          /\ ~Symbols[StartSymbol.symbols[1]].merger
          /\ \A k \in 1..Len(Symbols[StartSymbol.symbols[1]].symbols) :
                IsToken(Symbols[StartSymbol.symbols[1]].symbols[k])

\* the token of the optional at position p of the start symbol
OptionalToken(p) == Symbols[StartSymbol.symbols[p]].symbols[1]

\* C3: a chain with optional(X) at its first or at its last position parses a stream
\* without X to a list with [] at that position and a stream with X to a list with
\* [result(x)] there; with the optional at the end, the chain is a valid possibility
\* of the root right after the token of the position before was pushed.
C3_OptionalAtEnds ==
    /\ (Parsed /\ OptionalFirst) =>
          /\ Stream = <<StartSymbol.symbols[2]>> =>
                outcome.val = Merged(gr.startSymbol,
                                     ListVal(<<ListVal(<<>>), TokenValue(1)>>))
          /\ Stream = <<OptionalToken(1), StartSymbol.symbols[2]>> =>
                outcome.val = Merged(gr.startSymbol,
                                     ListVal(<<ListVal(<<TokenValue(1)>>), TokenValue(2)>>))
    /\ (Parsed /\ OptionalLast) =>
          /\ (Len(Stream) = 1 /\ Stream[1] \in FirstTokens) =>
                outcome.val = Merged(gr.startSymbol,
                                     ListVal(<<TokenValue(1), ListVal(<<>>)>>))
          /\ (Len(Stream) = 2 /\ Stream[1] \in FirstTokens
                  /\ Stream[2] = OptionalToken(2)) =>
                outcome.val = Merged(gr.startSymbol,
                                     ListVal(<<TokenValue(1), ListVal(<<TokenValue(2)>>)>>))
    /\ (pc = "push" /\ OptionalLast /\ pushed = 1 /\ Stream[1] \in FirstTokens) =>
          Len(heap.validPossibilities) = 1

\* oneOf([A, B]) >> optional(B) completed on its first token, with more to come
C3_Witness ==
    /\ pc = "push" /\ OptionalLast /\ ~IsToken(StartSymbol.symbols[1])
    /\ pushed = 1 /\ Len(Stream) = 2 /\ Stream[2] = OptionalToken(2)
    /\ Len(heap.validPossibilities) = 1

StreamDerivations == Derivations(gr.startSymbol, 0, Len(Stream))

\* C5: AmbigiousResults is raised exactly when the stream has two or more derivations
\* from the start symbol, and the number of valid possibilities of the root state
\* after the last token is the number of derivations of the stream (stated for the
\* layered and proper grammars, where the derivations can be counted).
C5_AmbiguousIffTwoDerivations ==
    (Parsed /\ Layered /\ Proper) =>
        /\ outcome.kind = "AmbigiousResults" <=> StreamDerivations >= 2
        /\ Evaluated => Len(heap.validPossibilities) = StreamDerivations

\* C6: parse raises StatesExhausted exactly when some token begins no sentence of the
\* start symbol together with the tokens before it, and then no token after the first
\* such token is pushed; parse raises NotCompleted exactly when every token was
\* accepted and the stream is no sentence (stated for the layered and proper
\* grammars).
C6_ExhaustedOrNotCompleted ==
    (Parsed /\ Layered /\ Proper) =>
        /\ outcome.kind = "StatesExhausted" <=> FirstUnviable # 0
        /\ outcome.kind = "StatesExhausted" => pushed = FirstUnviable - 1
        /\ outcome.kind = "NotCompleted" <=> (FirstUnviable = 0 /\ StreamDerivations = 0)

\* C7: every pushToken of the root state starts from an empty list of valid
\* possibilities, so none of the valid possibilities it leaves was one before, and a
\* parse returns a value only for a stream that is a sentence as a whole, never for
\* one that merely begins with a sentence.
C7_ClearedAtEveryPush ==
    /\ [][PushToken =>
             \A i \in 1..Len(heap'.validPossibilities) :
                 ~Contains(heap.validPossibilities, heap'.validPossibilities[i])]_vars
    /\ []((Parsed /\ Layered /\ Proper /\ outcome.kind = "value") => StreamDerivations >= 1)

\* the first two tokens were a sentence, a third was pushed and accepted, and parse
\* raised NotCompleted
C7_Witness ==
    /\ Parsed /\ Layered /\ Proper
    /\ Len(Stream) = 3 /\ pushed = 3
    /\ Derivations(gr.startSymbol, 0, 2) >= 1
    /\ outcome.kind = "NotCompleted"

\* C8, as stated: when the start symbol has a merger, a parse that returns a value
\* has called this merger exactly once.
C8_MergerOnce ==
    (Parsed /\ StartSymbol.merger /\ outcome.kind = "value") =>
        Count(outcome.calls, gr.startSymbol) = 1

\* C8, amended: mergers are called by the evaluation of the result only; when the
\* start symbol has a merger, a parse that returns a value has called it at least
\* once, the last call of all is a call of it and returns the value of parse, and it
\* is called exactly once when the start symbol does not occur below itself.
C8_MergerOncePerStartState ==
    /\ pc # "done" => outcome.calls = <<>>
    /\ (Parsed /\ StartSymbol.merger /\ outcome.kind = "value") =>
          /\ Count(outcome.calls, gr.startSymbol) >= 1
          /\ outcome.calls[Len(outcome.calls)] = gr.startSymbol
          /\ outcome.val.tag = "merged" /\ outcome.val.by = gr.startSymbol
          /\ gr.startSymbol \notin Below(gr.startSymbol) =>
                Count(outcome.calls, gr.startSymbol) = 1

\* a repeat with a merger parsed two tokens, forking on the way, and called it once
C8_Witness ==
    /\ Parsed /\ StartSymbol.merger /\ outcome.kind = "value"
    /\ gr.startSymbol \notin Below(gr.startSymbol)
    /\ Len(Stream) >= 2
    /\ Count(outcome.calls, gr.startSymbol) = 1

\* the start symbol is a token and lex made one match of the whole text
SingleToken ==
    /\ Parsed /\ IsToken(gr.startSymbol)
    /\ Len(tokStream) = 1 /\ tokStream[1].text = text

\* C9: when the start symbol is a token and the text is one match of it, parse
\* returns what the merger of the token makes of the matched value, or the matched
\* value when there is no merger; the matched value is the dict of the named group
\* when the regexp has one and the matched string otherwise.
C9_TokenGrammar ==
    SingleToken =>
        /\ outcome.kind = "value"
        /\ outcome.val = Merged(gr.startSymbol,
                                IF StartSymbol.regexp.group # ""
                                THEN DictVal(StartSymbol.regexp.group, text)
                                ELSE StrVal(text))

\* a token without a named group and with a merger matched a text of several
\* characters
C9_Witness ==
    /\ SingleToken /\ StartSymbol.merger /\ StartSymbol.regexp.group = ""
    /\ Len(text) >= 2
    /\ outcome.val = MergedVal(gr.startSymbol, StrVal(text))

\* a oneOf state that reported itself valid: a valid possibility of the root state or
\* an element of a result of its parent
CompletedOneOf(n) ==
    /\ heap.nodes[n].kind = "oneOf"
    /\ \/ Contains(heap.validPossibilities, n)
       \/ \E p \in 1..Len(heap.nodes) :
             \E k \in DOMAIN heap.nodes[p].results : Contains(heap.nodes[p].results[k], n)

\* C10: a oneOf state that reported itself valid holds one result, of one state, and
\* evaluates to what this state evaluates to, not to a list of it, handed to the
\* merger of the oneOf when there is one; so a oneOf of tokens as start symbol
\* returns the value of the one token of the stream.
C10_OneOfUnwrapped ==
    /\ heap.err = "none" =>
          \A n \in 1..Len(heap.nodes) :
              CompletedOneOf(n) =>
                  /\ Cardinality(DOMAIN heap.nodes[n].results) = 1
                  /\ \A k \in DOMAIN heap.nodes[n].results :
                        /\ Len(heap.nodes[n].results[k]) = 1
                        /\ IF result(heap, heap.nodes[n].results[k][1]).err = "none"
                           THEN result(heap, n).val =
                                    Merged(heap.nodes[n].symbol,
                                           result(heap, heap.nodes[n].results[k][1]).val)
                           ELSE result(heap, n).err =
                                    result(heap, heap.nodes[n].results[k][1]).err
    /\ (Evaluated /\ StartSymbol.kind = "oneOf" /\ Len(Stream) = 1
            /\ \A k \in 1..Len(StartSymbol.symbols) : IsToken(StartSymbol.symbols[k])
            /\ Len(heap.validPossibilities) = 1) =>
          outcome.val = Merged(gr.startSymbol, TokenValue(1))

\* a oneOf of two tokens with a merger parsed one token
C10_Witness ==
    /\ Evaluated /\ StartSymbol.kind = "oneOf" /\ StartSymbol.merger
    /\ Len(Stream) = 1 /\ Len(heap.validPossibilities) = 1
    /\ CompletedOneOf(heap.validPossibilities[1])
    /\ outcome.val = MergedVal(gr.startSymbol, tokStream[1].result)

\* no symbol is an undefined name and no token matches the empty string
WellFormed ==
    \A s \in 1..Len(Symbols) :
        /\ Symbols[s].kind # "definedLater"
        /\ IsToken(s) => (Symbols[s].regexp.kind # "star" /\ Len(Symbols[s].regexp.chars) > 0)

\* C11: for a grammar of tokens, chains, repeats and oneOfs without a token that
\* matches the empty string and without an undefined name, parse ends with a value
\* or with one of LexerError, StatesExhausted, NotCompleted, AmbigiousResults and
\* InfiniteStateExpansion, and with no other exception.
C11_DeclaredOutcomesOnly ==
    (pc = "done" /\ WellFormed) =>
        outcome.kind \in {"value", "LexerError", "StatesExhausted", "NotCompleted",
                          "AmbigiousResults", "InfiniteStateExpansion"}

\* the start symbol is A := repeat(B) with B := repeat(A)
MutuallyRecursiveRepeats ==
    /\ StartSymbol.kind = "repeat" /\ StartSymbol.From = 0 /\ StartSymbol.To = -1
    /\ StartSymbol.symbols[1] # gr.startSymbol
    /\ Symbols[StartSymbol.symbols[1]].kind = "repeat"
    /\ Symbols[StartSymbol.symbols[1]].From = 0
    /\ Symbols[StartSymbol.symbols[1]].To = -1
    /\ Symbols[StartSymbol.symbols[1]].symbols[1] = gr.startSymbol

\* C12: for A := repeat(B), B := repeat(A) the parse of the empty text ends, and it
\* ends with InfiniteStateExpansion: the construction of the states runs into the
\* limit of the stack, no token is pushed and no result is evaluated.
C12_InfiniteExpansion ==
    /\ (MutuallyRecursiveRepeats /\ text = <<>>) => pc \in {"lex", "construct", "done"}
    /\ (MutuallyRecursiveRepeats /\ text = <<>> /\ pc = "done") =>
          /\ outcome.kind = "InfiniteStateExpansion"
          /\ heap.err = "RecursionLimit"
          /\ pushed = 0

\* the construction for A := repeat(B), B := repeat(A) went as deep as the stack
\* allows and parse raised InfiniteStateExpansion
C12_Witness ==
    /\ MutuallyRecursiveRepeats /\ text = <<>> /\ pc = "done"
    /\ Len(heap.nodes) > MaxDepth
    /\ outcome.kind = "InfiniteStateExpansion"

\* the lexer state on top of the stack, and the match of token t where lex stands
TopMode == gr.lexerStates[states[Len(states)]]

MatchAt(t) == match(Symbols, t, text, pos)

\* some token of the list matches where lex stands
SomeMatch(toks) == \E i \in 1..Len(toks) : MatchAt(toks[i]).kind = "match"

\* C13: an iteration of lex that goes on in the text either took the match of a
\* token of the omit list of the state on top, and the stream is as it was, or took
\* the match of a token of its tokens list while no token of the omit list matched,
\* and this match is appended to the stream; so the stream holds the matches in the
\* order of the text and none of them is a match taken from an omit list.
C13_OmittedNeverAcceptedAlways ==
    /\ [][(pc = "lex" /\ pos' # pos) =>
             \/ /\ tokStream' = tokStream
                /\ \E i \in 1..Len(TopMode.omit) :
                      /\ MatchAt(TopMode.omit[i]).kind = "match"
                      /\ MatchAt(TopMode.omit[i]).end = pos'
             \/ /\ ~SomeMatch(TopMode.omit)
                /\ \E i \in 1..Len(TopMode.tokens) :
                      /\ MatchAt(TopMode.tokens[i]).kind = "match"
                      /\ MatchAt(TopMode.tokens[i]).end = pos'
                      /\ tokStream' = Append(tokStream, MatchAt(TopMode.tokens[i]))]_vars
    /\ [](\A i \in 1..Len(tokStream) :
             /\ tokStream[i].start >= (IF i = 1 THEN 0 ELSE tokStream[i - 1].end)
             /\ tokStream[i].end <= pos
             /\ tokStream[i].text = SubSeq(text, tokStream[i].start + 1, tokStream[i].end))

\* lex returned a stream of two matches with omitted text between them
C13_Witness ==
    /\ pc = "construct" /\ Len(tokStream) = 2
    /\ tokStream[2].start > tokStream[1].end

\* the first token of the list, in the order of the list, whose regexp matches where
\* lex stands, be it the empty string; 0 when none does
FirstIndex(toks) ==
    LET S == {i \in 1..Len(toks) : MatchAt(toks[i]).kind # "none"}
    IN  IF S = {} THEN 0 ELSE CHOOSE i \in S : \A k \in S : i <= k

\* what an iteration of lex does with the first match m of a list: go on behind it,
\* with the stream as given, or raise ValueError for a match of the empty string
Taken(m, stream) ==
    IF m.kind = "match"
    THEN pos' = m.end /\ tokStream' = stream /\ pc' = "lex"
    ELSE pc' = "done" /\ outcome'.kind = "ValueError"

\* C14: an iteration of lex takes the first token of the omit list of the state on
\* top that matches, in the order of the list, and drops the match; only when no
\* omit token matches it takes the first token of the tokens list that matches, in
\* the order of the list and whatever the lengths of the matches, and appends the
\* match; so a match that is appended is never one of a token of the omit list.
C14_OmitFirstInDeclaredOrder ==
    /\ [][(pc = "lex" /\ pos < Len(text) /\ Len(states) > 0) =>
             IF FirstIndex(TopMode.omit) # 0
             THEN Taken(MatchAt(TopMode.omit[FirstIndex(TopMode.omit)]), tokStream)
             ELSE IF FirstIndex(TopMode.tokens) # 0
             THEN Taken(MatchAt(TopMode.tokens[FirstIndex(TopMode.tokens)]),
                        Append(tokStream, MatchAt(TopMode.tokens[FirstIndex(TopMode.tokens)])))
             ELSE pc' = "done" /\ outcome'.kind = "LexerError"]_vars
    /\ [][(pc = "lex" /\ tokStream' # tokStream) =>
             ~Contains(TopMode.omit, tokStream'[Len(tokStream')].token)]_vars

\* lex returned a stream whose first match is shorter than the match of a token
\* further down the tokens list, and dropped a match of a token of the tokens list
C14_Witness ==
    /\ pc = "construct" /\ Len(gr.lexerStates) = 1 /\ Len(tokStream) = 2
    /\ \E i \in 1..Len(gr.lexerStates[1].tokens) :
          match(Symbols, gr.lexerStates[1].tokens[i], text, tokStream[1].start).end
              > tokStream[1].end
    /\ tokStream[2].end < Len(text)
    /\ \E i \in 1..Len(gr.lexerStates[1].tokens) :
          /\ Contains(gr.lexerStates[1].omit, gr.lexerStates[1].tokens[i])
          /\ match(Symbols, gr.lexerStates[1].tokens[i], text, tokStream[2].end).kind = "match"

\* the token an iteration of lex that goes on in the text takes
TakenToken ==
    IF FirstIndex(TopMode.omit) # 0 THEN TopMode.omit[FirstIndex(TopMode.omit)]
    ELSE TopMode.tokens[FirstIndex(TopMode.tokens)]

\* the lexer states that are pushed on token t
PushedOn(t) == {i \in 1..Len(gr.lexerStates) : Contains(gr.lexerStates[i].pushOn, t)}

\* the texts of stateTests.parse
AbBlanksC == <<"a", "b", " ", " ", " ", "c", " ", "/", "b", "a">>

BlankInAState == <<"a", " ", "b", " ", "c", " ", "/", "b", "a">>

BlankAfterPop == <<"a", "b", " ", "c", " ", "/", "b", " ", "a">>

\* C15: the token an iteration of lex takes is one of the state on top of the stack
\* before the iteration, and the change of the stack is in force from the next
\* position on: a push token that is no pop token leaves the stack with a state it
\* pushes on top, a pop token that pushes nothing leaves the stack without its top,
\* any other token leaves it as it is.  With the states of stateTests the text
\* 'ab   c /ba' lexes to a, b, c, /b, a and parses to their values, 'a b c /ba'
\* raises LexerError at the first blank and 'ab c /b a' at the blank after /b.
C15_ModeTransitions ==
    /\ [][(pc = "lex" /\ pos' # pos) =>
             /\ MatchAt(TakenToken).kind = "match" /\ MatchAt(TakenToken).end = pos'
             /\ (TopMode.popOn # TakenToken /\ PushedOn(TakenToken) # {}) =>
                   /\ Len(states') = Len(states) + 1
                   /\ SubSeq(states', 1, Len(states)) = states
                   /\ states'[Len(states')] \in PushedOn(TakenToken)
             /\ (TopMode.popOn = TakenToken /\ PushedOn(TakenToken) = {}) =>
                   states' = SubSeq(states, 1, Len(states) - 1)
             /\ (TopMode.popOn # TakenToken /\ PushedOn(TakenToken) = {}) =>
                   states' = states]_vars
    /\ []((gr = StateTestsGrammar /\ pc = "done") =>
             /\ text = AbBlanksC =>
                   /\ Stream = <<1, 2, 3, 4, 1>>
                   /\ outcome.val = ListVal(<<StrVal(<<"a">>), StrVal(<<"b">>), StrVal(<<"c">>),
                                              StrVal(<<"/", "b">>), StrVal(<<"a">>)>>)
             /\ text = BlankInAState =>
                   outcome.kind = "LexerError" /\ outcome.pos = 1 /\ outcome.lexerState = 1
             /\ text = BlankAfterPop =>
                   outcome.kind = "LexerError" /\ outcome.pos = 7 /\ outcome.lexerState = 1)

\* 'ab   c /ba' was lexed with the states of stateTests: bState was pushed on b,
\* popped on /b, and the last a was matched in aState
C15_Witness ==
    /\ gr = StateTestsGrammar /\ text = AbBlanksC /\ pc = "construct"
    /\ Stream = <<1, 2, 3, 4, 1>> /\ states = <<1>>

\* C16: the stack of lexer states holds at least one state in every reachable state:
\* the start state is never popped.
C16_BaseModeNeverPopped == Len(states) >= 1

\* the stack after the pop of the taken token
AfterPop ==
    IF TopMode.popOn = TakenToken THEN SubSeq(states, 1, Len(states) - 1) ELSE states

\* the lexer state that is pushed on the taken token: the last one that lists it
PushedState == CHOOSE i \in PushedOn(TakenToken) : \A j \in PushedOn(TakenToken) : j <= i

\* the taken token is an omitted one
TakenOmitted == FirstIndex(TopMode.omit) # 0

\* C17: for every token lex takes, omitted or not, the stack after the iteration is
\* the stack before it, without its top if the token is the popOn of the top, and
\* then with the state that is pushed on the token on top, whatever state is on top
\* then: a push token taken while its state is on top pushes that state again.
C17_PopBeforePush ==
    [][(pc = "lex" /\ pos' # pos) =>
          /\ states' = IF PushedOn(TakenToken) = {} THEN AfterPop
                       ELSE Append(AfterPop, PushedState)
          /\ tokStream' = IF TakenOmitted THEN tokStream
                          ELSE Append(tokStream, MatchAt(TakenToken))]_vars

\* the text aa with a state that is pushed on a: the second a is taken while that
\* state is on top and pushes it again
C17_Witness ==
    /\ gr = PushAgainGrammar /\ text = <<"a", "a">> /\ pc = "construct"
    /\ states = <<1, 2, 2>> /\ Stream = <<1, 1>>

\* a token that is both the popOn of the top and a push token was taken: the stack
\* has the same depth, the top was popped and the pushed state is on top
C17_PopAndPushReached ==
    /\ gr = PopStartGrammar /\ text = <<"b", "b">> /\ pc = "construct"
    /\ states = <<1, 2>>

\* an omitted token pushed a state
C17_OmittedPushReached ==
    /\ gr = OmitPushGrammar /\ text = <<"a", " ">> /\ pc = "construct"
    /\ states = <<1, 2>> /\ Stream = <<1>>

\* the tokens of lexer state s, omitted or not
TokensOf(s) ==
    {gr.lexerStates[s].omit[i] : i \in 1..Len(gr.lexerStates[s].omit)} \cup
    {gr.lexerStates[s].tokens[i] : i \in 1..Len(gr.lexerStates[s].tokens)}

\* no token of lexer state s matches in txt at position p
NothingMatches(s, txt, p) ==
    \A t \in TokensOf(s) : match(Symbols, t, txt, p).kind = "none"

\* C18: while a lexer state is on top of the stack, an iteration of lex raises
\* LexerError exactly when no token of that state, omitted or not, matches at pos:
\* at every position before it a token was taken.  The error carries the text, that
\* position and that lexer state, and every match of the stream ends at or before
\* that position.
C18_LexerErrorAtFirstUnmatched ==
    /\ [][(pc = "lex" /\ pos < Len(text) /\ states # <<>>) =>
             /\ (outcome'.kind = "LexerError") <=> NothingMatches(states[Len(states)], text, pos)
             /\ (outcome'.kind = "LexerError") =>
                   /\ pc' = "done"
                   /\ outcome'.text = text /\ outcome'.pos = pos
                   /\ outcome'.lexerState = states[Len(states)]
                   /\ tokStream' = tokStream]_vars
    /\ [](outcome.kind = "LexerError" =>
             /\ outcome.text = text /\ outcome.pos = pos /\ outcome.pos < Len(text)
             /\ outcome.lexerState = states[Len(states)]
             /\ NothingMatches(outcome.lexerState, outcome.text, outcome.pos)
             /\ \A i \in 1..Len(tokStream) :
                   tokStream[i].start < outcome.pos /\ tokStream[i].end <= outcome.pos)

\* a LexerError in a pushed lexer state, after a token was matched
C18_Witness ==
    /\ pc = "done" /\ outcome.kind = "LexerError"
    /\ outcome.pos >= 1 /\ Len(tokStream) >= 1
    /\ Len(states) = 2 /\ outcome.lexerState = states[2]
    /\ outcome.text = text

\* the tokens of the state on top in the order lex tries them
Attempted == TopMode.omit \o TopMode.tokens

\* the length of what the regexp of the i-th attempted token matches at pos, -1 for none
AttemptLength(i) == MatchLength(Symbols[Attempted[i]].regexp, text, pos)

\* the first attempted token whose regexp matches at pos matches the empty string
FirstAttemptEmpty ==
    \E i \in 1..Len(Attempted) :
        /\ AttemptLength(i) = 0
        /\ \A j \in 1..(i - 1) : AttemptLength(j) < 0

\* C19: match of a token raises ValueError whenever its regexp matches the empty
\* string at the position, and a match it returns is never empty; so an iteration of
\* lex raises ValueError exactly when the first token whose regexp matches at pos
\* matches the empty string there, nothing is added to the stream then, and every
\* match of the stream ends after its start.
C19_NoZeroLengthMatch ==
    /\ [](\A t \in 1..Len(Symbols) : \A p \in 0..Len(text) :
             Symbols[t].kind = "token" =>
                /\ (MatchLength(Symbols[t].regexp, text, p) = 0
                       <=> match(Symbols, t, text, p).kind = "ValueError")
                /\ match(Symbols, t, text, p).kind = "match" =>
                       match(Symbols, t, text, p).end > match(Symbols, t, text, p).start)
    /\ [](\A i \in 1..Len(tokStream) : tokStream[i].end > tokStream[i].start)
    /\ [][(pc = "lex" /\ pos < Len(text) /\ states # <<>>) =>
             /\ (outcome'.kind = "ValueError") <=> FirstAttemptEmpty
             /\ (outcome'.kind = "ValueError") =>
                   pc' = "done" /\ pos' = pos /\ tokStream' = tokStream]_vars

\* the token b* in the text ba: b is matched, and at a the regexp matches the empty
\* string and lex has raised ValueError
C19_Witness ==
    /\ pc = "done" /\ outcome.kind = "ValueError" /\ heap = NewHeap
    /\ text = <<"b", "a">> /\ pos = 1 /\ Len(tokStream) = 1
    /\ \E t \in TokensOf(states[Len(states)]) :
          MatchLength(Symbols[t].regexp, text, pos) = 0

\* C20: an iteration of lex raises an error or goes on in the text, pos never passes
\* the end of the text, lex returns exactly when pos is the length of the text, and
\* lex comes to an end on every text.
C20_LexTerminates ==
    /\ [][pc = "lex" =>
             \/ pos < Len(text) /\ pc' = "lex" /\ pos' > pos /\ pos' <= Len(text)
             \/ pos < Len(text) /\ pc' = "done" /\ pos' = pos
                   /\ outcome'.kind \in {"LexerError", "ValueError", "AttributeError"}
             \/ pos = Len(text) /\ pc' = "construct" /\ pos' = pos
                   /\ outcome' = NoOutcome]_vars
    /\ [](pos <= Len(text))
    /\ (pc = "lex") ~> (pc # "lex")

\* lex has returned after three iterations, one of them for an omitted token
C20_Witness ==
    /\ pc = "construct" /\ pos = Len(text) /\ Len(text) = 3
    /\ Len(tokStream) = 2
    /\ \A i \in 1..2 : tokStream[i].end = tokStream[i].start + 1

(***************************************************************************)
(* The call of parse as a function of the grammar and the text: what a     *)
(* call that begins with fresh locals returns or raises.                   *)
(***************************************************************************)
\* lex from position p with the stack sts and the matches found so far: the
\* stream, or the error
RECURSIVE LexFrom(_, _, _)
LexFrom(sts, p, stream) ==
    CASE p >= Len(text) -> [err |-> NoOutcome, stream |-> stream]
      [] p < Len(text) /\ sts = <<>> ->
           [err |-> Error("AttributeError"), stream |-> stream]
      [] p < Len(text) /\ sts # <<>> ->
           LET top  == gr.lexerStates[sts[Len(sts)]]
               om   == firstMatch(top.omit, 1, text, p)
               acc  == firstMatch(top.tokens, 1, text, p)
           IN  CASE om.kind = "match" -> LexFrom(transition(sts, om.token), om.end, stream)
                 [] om.kind = "ValueError" -> [err |-> Error("ValueError"), stream |-> stream]
                 [] om.kind = "none" /\ acc.kind = "match" ->
                      LexFrom(transition(sts, acc.token), acc.end, Append(stream, acc))
                 [] om.kind = "none" /\ acc.kind = "ValueError" ->
                      [err |-> Error("ValueError"), stream |-> stream]
                 [] OTHER -> [err |-> LexerError(text, p, sts[Len(sts)]), stream |-> stream]

\* the matches of the stream from the i-th on pushed into the root state, and the
\* result of the root state
RECURSIVE PushFrom(_, _, _)
PushFrom(h, i, stream) ==
    CASE h.err # "none" -> ParserError(h)
      [] h.err = "none" /\ i <= Len(stream) ->
           PushFrom(rootPushToken(h, stream[i]), i + 1, stream)
      [] OTHER -> IF rootResult(h).err # "none" THEN Error(rootResult(h).err)
                  ELSE Value(rootResult(h))

\* what parse(text) makes of the grammar gr as it is now and of text alone
FreshOutcome ==
    LET lexed == LexFrom(<<gr.lexerStartState>>, 0, <<>>)
    IN  IF lexed.err # NoOutcome THEN lexed.err
        ELSE PushFrom(rootInit(gr.startSymbol), 1, lexed.stream)

\* C21: a call of parse leaves the grammar as it is, and every call on a grammar,
\* whatever was parsed with it before and however that ended, begins with the start
\* lexer state alone on the stack, an empty stream and no parser state, builds its
\* root state anew, and ends as the text and the grammar alone decide.
C21_ParseIndependent ==
    /\ [][gr' = gr]_vars
    /\ [][pc' = "lex" /\ pc # "lex" =>
             /\ pc = "done" /\ parses' = parses + 1
             /\ pos' = 0 /\ states' = <<gr.lexerStartState>> /\ tokStream' = <<>>
             /\ heap' = NewHeap /\ pushed' = 0 /\ outcome' = NoOutcome]_vars
    /\ [][pc = "construct" => heap'.err # "none" \/ heap' = rootInit(gr.startSymbol)]_vars
    /\ [](pc = "done" => outcome = FreshOutcome)

\* a second call of parse on a grammar with a pushed lexer state has returned a value
C21_Witness ==
    /\ parses = 1 /\ pc = "done" /\ outcome.kind = "value"
    /\ Len(gr.lexerStates) = 2 /\ Len(tokStream) >= 2

\* a second call of parse has raised
C21_SecondParseRaised ==
    /\ parses = 1 /\ pc = "done" /\ outcome.kind \in {"LexerError", "StatesExhausted"}

\* the grammar has a symbol that is a name without a definition
HasUndefinedSymbol == \E s \in 1..Len(Symbols) : Symbols[s].kind = "definedLater"

\* C22: a name that is never defined is found when the grammar is instantiated: no
\* grammar that parse can be called on has an undefined symbol, and no call of parse
\* raises the RuntimeError "... not defined." of definedLater.getState.
C22_UndefinedFoundAtInstantiation ==
    /\ pc # "lex" => ~HasUndefinedSymbol
    /\ outcome.kind # "RuntimeError"

(***************************************************************************)
(* What the log of a pass tells.                                           *)
(***************************************************************************)
\* a call of pushToken of the root state has just returned or raised
PassDone == pc = "push" /\ heap' # heap

\* the entries of the log of heap h with the call op
Calls(h, op) == {i \in 1..Len(h.log) : h.log[i].op = op}

\* the states that were pushed the token of the last pass
Pushed(h) == {h.log[i].state : i \in Calls(h, "pushToken")}

\* the matches below the states of a list of results, from left to right; a state in
\* such a list is the state of a token or holds one list of results
RECURSIVE Flat(_, _)
Flat(h, res) ==
    IF Len(res) = 0 THEN <<>>
    ELSE (IF h.nodes[res[1]].kind = "token" THEN <<h.nodes[res[1]].result>>
          ELSE IF Cardinality(DOMAIN h.nodes[res[1]].results) # 1
               THEN <<NoMatch>>
               ELSE Flat(h, h.nodes[res[1]].results[
                               CHOOSE k \in DOMAIN h.nodes[res[1]].results : TRUE]))
         \o Flat(h, SubSeq(res, 2, Len(res)))

\* the grammar chain([tokA, tokA])
ChainOfTwoAs == gr = WithStart(<<chain(<<1, 1>>, FALSE)>>)

\* C23: a state that is made while a token is pushed is not pushed that token, no
\* state is pushed a token twice, and a token state that has matched is not pushed
\* again; the matches below the state a value is the result of are the matches of the
\* stream, each once and in their order; chain([a, a]) is not completed by one a.
C23_NoTokenConsumedTwice ==
    /\ [][PassDone =>
             /\ \A s \in Pushed(heap') :
                   /\ s <= Len(heap.nodes)
                   /\ heap.nodes[s].kind = "token" => heap.nodes[s].result = NoMatch
             /\ \A i, j \in Calls(heap', "pushToken") :
                   heap'.log[i].state = heap'.log[j].state => i = j]_vars
    /\ []((Evaluated /\ outcome.kind = "value") =>
             Flat(heap, <<heap.validPossibilities[1]>>) = tokStream)
    /\ []((ChainOfTwoAs /\ Len(tokStream) = 1 /\ Parsed) =>
             outcome.kind = "NotCompleted")

\* chain([a, a]) was pushed the first a: the state of the second a was made in that
\* pass and was not pushed
C23_Witness ==
    /\ ChainOfTwoAs /\ pc = "push" /\ pushed = 1 /\ Len(tokStream) = 2
    /\ \E s \in 1..Len(heap.nodes) :
          /\ heap.nodes[s].kind = "token" /\ heap.nodes[s].result = NoMatch
          /\ s \notin Pushed(heap)
          /\ Contains(heap.nodes[heap.nodes[s].parent].possibilities, s)

\* the place of x in the list s, 0 when it is not in it
Place(s, x) == IF Contains(s, x) THEN CHOOSE i \in 1..Len(s) : s[i] = x /\ \A j \in 1..(i - 1) : s[j] # x
               ELSE 0

\* createNextState was called for a valid state that is in the list of possibilities
\* before the possibility the chain works on, or is that possibility
NotAfterCurrent(e) ==
    /\ Place(e.live, e.state) # 0 /\ Place(e.live, e.cur) # 0
    /\ Place(e.live, e.state) <= Place(e.live, e.cur)

\* ... for a valid state that is in the list after the possibility the chain works on
AfterCurrent(e) ==
    /\ Place(e.live, e.state) # 0 /\ Place(e.live, e.cur) # 0
    /\ Place(e.live, e.state) > Place(e.live, e.cur)

\* the entries of createNextState in the log, each with the entry that follows it
NextStateCalls == {i \in Calls(heap, "createNextState") : i < Len(heap.log)}

\* C24 as stated: createNextState adds the next child with addPossibilityNow when the
\* valid child is before the possibility the chain works on or is that possibility,
\* and with addPossibility otherwise.
C24_NowIfNotAfterCurrent ==
    \A i \in NextStateCalls :
        /\ heap.log[i].deferred <=> NotAfterCurrent(heap.log[i])
        /\ heap.log[i + 1].op =
              (IF NotAfterCurrent(heap.log[i]) THEN "addPossibilityNow" ELSE "addPossibility")

\* C24, amended: createNextState adds the next child with addPossibilityNow exactly
\* when the valid child is in the list of possibilities after the possibility the
\* chain works on, and that call appends the child to the list at once; in every
\* other case (the valid child is that possibility or is before it, is not in the
\* list, or the chain works on none) it adds the child with addPossibility, which
\* appends it at once when the state is not yielding its possibilities and puts it
\* off to the end of the pass when it is.
C24_NowIfAfterCurrent ==
    /\ heap.err = "none" => \A i \in NextStateCalls :
          /\ heap.log[i].deferred <=> AfterCurrent(heap.log[i])
          /\ heap.log[i + 1].op =
                (IF AfterCurrent(heap.log[i]) THEN "addPossibilityNow" ELSE "addPossibility")
          /\ heap.log[i + 1].me = heap.log[i].me
          /\ heap.log[i + 1].state = heap.log[i].other
    /\ \A i \in Calls(heap, "createNextState") : i < Len(heap.log) \/ heap.err # "none"

\* both choices were made while the root state was constructed: the state works on
\* a first valid child when a second one, after it in the list, is made valid
C24_Witness ==
    /\ pc = "push" /\ pushed = 0
    /\ \E i, j \in NextStateCalls :
          /\ AfterCurrent(heap.log[i]) /\ heap.log[i + 1].op = "addPossibilityNow"
          /\ ~AfterCurrent(heap.log[j]) /\ heap.log[j + 1].op = "addPossibility"

\* a token of a chain has matched: the valid child is the possibility the chain
\* works on, and the next child is put off to the end of the pass
C24_DeferredReached ==
    /\ pc = "push" /\ pushed = 1
    /\ \E i \in NextStateCalls :
          /\ heap.log[i].state = heap.log[i].cur /\ heap.log[i].cur # 0
          /\ heap.log[i + 1].op = "addPossibility" /\ heap.log[i + 1].deferred

\* C25: neither the construction of the root state nor a call of its pushToken asks
\* a state to remove a state that is in none of its lists: removePossibility never
\* raises ValueError("State is no substate of me.").
C25_NoSubstateErrorUnreachable == heap.err # "ValueError"

\* state s of heap h was made without an initial possibility and has got none since
Childless(h, s) ==
    h.nodes[s].possibilities = <<>> /\ h.nodes[s].addedPossibilities = <<>>

\* the call of fork in entry i of the log made a twin of the state that forked: the
\* same class, symbol and parent, no child, and results and currentPositions that
\* hold the valid branch alone, as the forking state held it
TwinMade(h, i) ==
    /\ h.nodes[h.log[i].other].kind = h.nodes[h.log[i].me].kind
    /\ h.nodes[h.log[i].other].symbol = h.nodes[h.log[i].me].symbol
    /\ h.nodes[h.log[i].other].parent = h.nodes[h.log[i].me].parent
    /\ Childless(h, h.log[i].other)
    /\ DOMAIN h.nodes[h.log[i].other].results = {h.log[i].state}
    /\ DOMAIN h.nodes[h.log[i].other].currentPositions = {h.log[i].state}
    /\ h.nodes[h.log[i].other].results[h.log[i].state] = h.log[i].live
    /\ h.nodes[h.log[i].other].currentPositions[h.log[i].state] = h.log[i].cur

\* the call of fork in entry i took the branch from the forking state, gave the twin
\* to the parent as a possibility, and the twin was made valid next
TwinHandedOn(h, i) ==
    /\ \E j \in 1..(i - 1) :
          /\ h.log[j].op = "removePossibility"
          /\ h.log[j].me = h.log[i].me /\ h.log[j].state = h.log[i].state
    /\ \E j \in 1..(i - 1) :
          /\ h.log[j].op = "addPossibility"
          /\ h.log[j].me = h.nodes[h.log[i].me].parent /\ h.log[j].state = h.log[i].other
    /\ i < Len(h.log) /\ h.log[i + 1].op = "makeValid"
    /\ h.log[i + 1].state = h.log[i].other
    /\ h.log[i + 1].me = h.nodes[h.log[i].me].parent
    /\ ~Contains(h.nodes[h.log[i].me].possibilities, h.log[i].state)
    /\ h.log[i].state \notin DOMAIN h.nodes[h.log[i].me].results
    /\ h.log[i].state \notin DOMAIN h.nodes[h.log[i].me].currentPositions

\* a branch of chain state s of heap h has all the symbols of the chain
FullBranches(h, s) ==
    {k \in DOMAIN h.nodes[s].currentPositions :
        h.nodes[s].currentPositions[k] = Len(Symbols[h.nodes[s].symbol].symbols)}

\* C26: every fork makes a twin of the forking state (same class, symbol and parent)
\* without an initial possibility that holds the valid branch alone, with the results
\* and the position the forking state had for it; the branch is taken from the
\* forking state, the twin is added to the parent and is what is made valid.  A chain
\* forks a branch exactly when it has all the symbols, so a full branch is only ever
\* found in a twin, and a state that is made valid is a token state or has no child.
C26_ChainForksWhenComplete ==
    heap.err = "none" =>
        /\ \A i \in Calls(heap, "fork") :
              /\ TwinMade(heap, i) /\ TwinHandedOn(heap, i)
              /\ heap.nodes[heap.log[i].me].kind = "chain" =>
                    /\ heap.log[i].cur = Len(Symbols[heap.nodes[heap.log[i].me].symbol].symbols)
                    /\ Len(heap.log[i].live) = heap.log[i].cur
        /\ \A s \in 1..Len(heap.nodes) :
              (heap.nodes[s].kind = "chain" /\ FullBranches(heap, s) # {}) =>
                  /\ Childless(heap, s)
                  /\ Cardinality(DOMAIN heap.nodes[s].results) = 1
        /\ \A j \in Calls(heap, "makeValid") :
              \/ heap.nodes[heap.log[j].state].kind = "token"
              \/ Childless(heap, heap.log[j].state)

\* the second token of chain([a, b]) was pushed: the chain state has forked, the
\* twin is the valid possibility of the root state
C26_Witness ==
    /\ gr = WithStart(<<chain(<<1, 2>>, FALSE)>>) /\ pc = "push" /\ pushed = 2
    /\ \E i \in Calls(heap, "fork") :
          /\ heap.nodes[heap.log[i].me].kind = "chain"
          /\ heap.validPossibilities = <<heap.log[i].other>>
          /\ Len(heap.log[i].live) = 2

\* the calls of makeValid of the log that go to a repeat state
RepeatMatches ==
    {j \in Calls(heap, "makeValid") :
        heap.log[j].me # 0 /\ heap.nodes[heap.log[j].me].kind = "repeat"}

\* the number of results of the branch with the match of entry j of the log
MatchCount(j) == Len(heap.log[j].live) + 1

\* after entry j the repeat state made a state for one more match of the branch
\* (createNextState), which holds the results of the branch while it is there
Spawned(j) ==
    \E i \in Calls(heap, "createNextState") :
        /\ i > j
        /\ heap.log[i].me = heap.log[j].me /\ heap.log[i].state = heap.log[j].state
        /\ heap.nodes[heap.log[i].other].symbol =
               Symbols[heap.nodes[heap.log[j].me].symbol].symbols[1]
        /\ heap.log[i].other \in DOMAIN heap.nodes[heap.log[j].me].results =>
               heap.nodes[heap.log[j].me].results[heap.log[i].other] =
                   Append(heap.log[j].live, heap.log[j].state)

\* after entry j the repeat state forked the branch, and the twin, which holds the
\* results of the branch, was made valid for the parent of the repeat state
Forked(j) ==
    \E i \in Calls(heap, "fork") :
        /\ i > j
        /\ heap.log[i].me = heap.log[j].me /\ heap.log[i].state = heap.log[j].state
        /\ heap.log[i].live = Append(heap.log[j].live, heap.log[j].state)
        /\ TwinMade(heap, i) /\ TwinHandedOn(heap, i)

\* after entry j the repeat state removed the branch
Removed(j) ==
    /\ \E i \in Calls(heap, "removePossibility") :
          /\ i > j
          /\ heap.log[i].me = heap.log[j].me /\ heap.log[i].state = heap.log[j].state
    /\ ~Contains(heap.nodes[heap.log[j].me].possibilities, heap.log[j].state)
    /\ heap.log[j].state \notin DOMAIN heap.nodes[heap.log[j].me].results

\* C27: when a possibility of a repeat(A, From, To) state is made valid and the
\* branch has k results with it, the state makes a state for another match iff
\* k < To or To = -1, forks the branch and makes the twin with the k results valid iff
\* k >= From, and in either case the branch is removed from it (without a fork when
\* k < From).
C27_RepeatSpawnsAndForks ==
    heap.err = "none" =>
        \A j \in RepeatMatches :
            /\ Spawned(j) <=>
                   \/ MatchCount(j) < Symbols[heap.nodes[heap.log[j].me].symbol].To
                   \/ Symbols[heap.nodes[heap.log[j].me].symbol].To = -1
            /\ Forked(j) <=> MatchCount(j) >= Symbols[heap.nodes[heap.log[j].me].symbol].From
            /\ Removed(j)

\* the first a of repeat(a, 1, 2): a state for a second a is made and the twin with
\* one result is valid
C27_Witness ==
    /\ gr = WithStart(<<repeat(1, 1, 2, FALSE)>>) /\ pc = "push" /\ pushed = 1
    /\ \E j \in RepeatMatches : MatchCount(j) = 1 /\ Spawned(j) /\ Forked(j)

\* the second a of repeat(a, 1, 2): the twin with two results is valid, no state for
\* a third a is made
C27_LastReached ==
    /\ gr = WithStart(<<repeat(1, 1, 2, FALSE)>>) /\ pc = "push" /\ pushed = 2
    /\ \E j \in RepeatMatches : MatchCount(j) = 2 /\ ~Spawned(j) /\ Forked(j)

\* the first a of repeat(a, 2): a state for a second a is made and nothing is valid
C27_TooFewReached ==
    /\ gr = WithStart(<<repeat(1, 2, -1, FALSE)>>) /\ pc = "push" /\ pushed = 1
    /\ \E j \in RepeatMatches : MatchCount(j) = 1 /\ Spawned(j) /\ ~Forked(j)
    /\ heap.validPossibilities = <<>>

(***************************************************************************)
(* The generator possibilities of a state: every run of it is a pair of    *)
(* entries of the log, yield for its first step and possibilities for its  *)
(* last.                                                                   *)
(***************************************************************************)
\* the entries of the log at which a run of the generator has ended
Ended == Calls(heap, "possibilities")

\* the entry at which the run that ended at entry i began
Begun(i) ==
    CHOOSE b \in 0..(i - 1) :
        /\ b # 0 => heap.log[b].op = "yield" /\ heap.log[b].me = heap.log[i].me
        /\ \A c \in (b + 1)..(i - 1) :
              ~(heap.log[c].op = "yield" /\ heap.log[c].me = heap.log[i].me)

\* the states that the calls op of state me asked for from entry b + 1 up to entry
\* i - 1 of the log, in the order of the calls
RECURSIVE Asked(_, _, _, _)
Asked(op, me, b, i) ==
    IF b + 1 >= i THEN <<>>
    ELSE (IF heap.log[b + 1].op = op /\ heap.log[b + 1].me = me
          THEN <<heap.log[b + 1].state>> ELSE <<>>) \o Asked(op, me, b + 1, i)

\* list poss without the first occurrence of every state of the list removed
RECURSIVE Without(_, _)
Without(poss, removed) ==
    IF Len(removed) = 0 THEN poss
    ELSE Without(RemoveFirst(poss, removed[1]), SubSeq(removed, 2, Len(removed)))

\* _possibilities of the state of entry i when it is seen next after that entry: at
\* the first step of its next run of the generator, else in the heap
SeenNext(i) ==
    IF \E n \in Calls(heap, "yield") : n > i /\ heap.log[n].me = heap.log[i].me
    THEN heap.log[CHOOSE n \in Calls(heap, "yield") :
                     /\ n > i /\ heap.log[n].me = heap.log[i].me
                     /\ \A c \in (i + 1)..(n - 1) :
                           ~(heap.log[c].op = "yield" /\ heap.log[c].me = heap.log[i].me)].live
    ELSE heap.nodes[heap.log[i].me].possibilities

\* validPossibilities of the root state at entry i of the log: empty while the
\* leafs are collected
ValidAt(i) ==
    IF \E n \in Calls(heap, "yield") : n > i /\ heap.log[n].me = 1
    THEN <<>> ELSE heap.validPossibilities

\* the state of entry i, the last step of a run of its generator, told its parent
\* that it is invalid; the root state raised StatesExhausted
ToldInvalid(i) ==
    IF heap.log[i].me = 1
    THEN i = Len(heap.log) /\ heap.err = "StatesExhausted" /\ ~heap.expectedGiven
    ELSE /\ i < Len(heap.log)
         /\ heap.log[i + 1].op = "makeInvalid" /\ heap.log[i + 1].state = heap.log[i].me

\* C28: in every run of the generator possibilities of a state, addPossibility and
\* removePossibility of that state are put off and the list _possibilities at the
\* last step is the list of the first step; a possibility that is removed before
\* its turn is not pushed the token; after the last step the list is the old list
\* with the added states appended and the removed states removed, the state is
\* not yielding, and it tells its parent that it is invalid iff the list is empty
\* (the root state: iff validPossibilities is empty too).  After a pass that ends
\* without an error _addedPossibilities and _removedPossibilities of every state are
\* empty.
C28_ChangesAtEndOfPass ==
    /\ \A i \in Ended :
          /\ Begun(i) # 0
          /\ heap.log[i].live = heap.log[Begun(i)].live
          /\ \A c \in (Begun(i) + 1)..(i - 1) :
                /\ (/\ heap.log[c].op \in {"addPossibility", "removePossibility"}
                    /\ heap.log[c].me = heap.log[i].me) => heap.log[c].deferred
                /\ (/\ heap.log[c].op = "removePossibility"
                    /\ heap.log[c].me = heap.log[i].me) =>
                       \A d \in (c + 1)..(i - 1) :
                           ~(/\ heap.log[d].op = "pushToken"
                             /\ heap.log[d].state = heap.log[c].state)
          /\ SeenNext(i) =
                 Without(heap.log[i].live
                             \o Asked("addPossibility", heap.log[i].me, Begun(i), i),
                         Asked("removePossibility", heap.log[i].me, Begun(i), i))
          /\ ToldInvalid(i) <=>
                 /\ SeenNext(i) = <<>>
                 /\ heap.log[i].me = 1 => ValidAt(i) = <<>>
    /\ heap.err = "none" =>
          \A s \in 1..Len(heap.nodes) :
              /\ heap.nodes[s].addedPossibilities = <<>>
              /\ heap.nodes[s].removedPossibilities = <<>>
              /\ ~heap.nodes[s].yieldsPossibilities

\* chain([a, b]) was pushed a: the run of the chain state's generator put off the
\* state for b and the removal of the state of a, and its list is now the state for b
C28_Witness ==
    /\ gr = WithStart(<<chain(<<1, 2>>, FALSE)>>) /\ pc = "push" /\ pushed = 1
    /\ heap.err = "none"
    /\ \E i \in Ended :
          /\ Len(Asked("addPossibility", heap.log[i].me, Begun(i), i)) = 1
          /\ Len(Asked("removePossibility", heap.log[i].me, Begun(i), i)) = 1
          /\ SeenNext(i) = Asked("addPossibility", heap.log[i].me, Begun(i), i)
          /\ SeenNext(i) # heap.log[i].live

\* state s of heap h is reached from the root state through the lists _possibilities
RECURSIVE Live(_, _)
Live(h, s) ==
    \/ s = 1
    \/ /\ h.nodes[s].parent # 0
       /\ Contains(h.nodes[h.nodes[s].parent].possibilities, s)
       /\ Live(h, h.nodes[s].parent)

\* a call of pushToken of the root state has returned
Consumed == pc \in {"push", "result", "done"} /\ pushed >= 1 /\ heap.err = "none"

\* C29: after every call of pushToken of the root state that returns, every chain,
\* repeat and oneOf state that is reached from the root state through the lists
\* _possibilities has a possibility, and every state that has told its parent that
\* it is invalid is not a possibility of its parent.
C29_NoEmptyStateLeft ==
    Consumed =>
        /\ \A s \in 2..Len(heap.nodes) :
              (heap.nodes[s].kind # "token" /\ Live(heap, s)) =>
                  heap.nodes[s].possibilities # <<>>
        /\ \A i \in Calls(heap, "makeInvalid") :
              ~Contains(heap.nodes[heap.log[i].me].possibilities, heap.log[i].state)

\* a pass has returned in which a chain, repeat or oneOf state that did not fork
\* lost its last possibility to a token that did not match, told its parent that
\* it is invalid and is reached from the root state no more
C29_Witness ==
    /\ Consumed
    /\ \E i \in Calls(heap, "makeInvalid") :
          /\ heap.nodes[heap.log[i].state].kind # "token"
          /\ heap.nodes[heap.log[i].state].possibilities = <<>>
          /\ ~Live(heap, heap.log[i].state)
          /\ \A f \in Calls(heap, "fork") : heap.log[f].me # heap.log[i].state
          /\ \E t \in Calls(heap, "makeInvalid") :
                /\ t < i /\ heap.log[t].me = heap.log[i].state
                /\ heap.nodes[heap.log[t].state].kind = "token"

\* state s of heap h has been made valid: a token state that holds a match, or a
\* state without a child that holds results (a twin that fork made, or the state
\* with the empty result that a repeat state made for its parent)
WasValid(h, s) ==
    IF h.nodes[s].kind = "token" THEN h.nodes[s].result # NoMatch
    ELSE s # 1 /\ Childless(h, s) /\ DOMAIN h.nodes[s].results # {}

\* C30: a state that calls makeValid is, when the pass ends, in none of the lists of
\* its parent and holds what it was valid with, and no state that has been made valid
\* is pushed a token in any later pass.
C30_ValidStateLeavesParent ==
    /\ [](heap.err = "none" =>
             \A j \in Calls(heap, "makeValid") :
                 /\ WasValid(heap, heap.log[j].state)
                 /\ ~Contains(heap.nodes[heap.log[j].me].possibilities, heap.log[j].state)
                 /\ ~Contains(heap.nodes[heap.log[j].me].addedPossibilities,
                              heap.log[j].state)
                 /\ ~Live(heap, heap.log[j].state))
    /\ [][PassDone =>
             /\ \A s \in Pushed(heap') : s <= Len(heap.nodes) /\ ~WasValid(heap, s)
             /\ \A s \in 1..Len(heap.nodes) :
                   WasValid(heap, s) =>
                       /\ WasValid(heap', s) /\ ~Live(heap', s)
                       /\ heap'.nodes[s].results = heap.nodes[s].results]_vars

\* repeat(a) was pushed its second a: the state of the first a and the twin that was
\* valid with it are not among the states that were pushed the second a
C30_Witness ==
    /\ gr = WithStart(<<repeat(1, 0, -1, FALSE)>>) /\ pc = "push" /\ pushed = 2
    /\ heap.err = "none"
    /\ \E s, t \in 1..Len(heap.nodes) :
          /\ heap.nodes[s].kind = "token" /\ heap.nodes[t].kind = "repeat"
          /\ WasValid(heap, s) /\ WasValid(heap, t)
          /\ s \in DOMAIN heap.nodes[t].results /\ heap.nodes[t].results[s] = <<s>>
          /\ \A j \in Calls(heap, "makeValid") : heap.log[j].state \notin {s, t}
          /\ Pushed(heap) \cap {s, t} = {}
          /\ Pushed(heap) # {}

\* C31: every StatesExhausted that parse raises carries expectedTokens, the leafs
\* that the root state collected before it pushed the last token.
C31_ExpectedTokensCarried ==
    outcome.kind = "StatesExhausted" =>
        outcome.expectedGiven /\ outcome.expectedTokens = heap.lastTokens

\* StatesExhausted was raised by pushToken of the root state, whose list was empty
\* when the token came, with the leafs of the push before
C31_RaisedWithLeafs ==
    /\ outcome.kind = "StatesExhausted" /\ outcome.expectedGiven
    /\ outcome.expectedTokens = heap.lastTokens /\ heap.lastTokens # <<>>

\* StatesExhausted was raised by makeInvalid of the root state at the end of the pass
\* in which the token made the last possibility invalid, without expectedTokens
C31_RaisedWithoutLeafs ==
    /\ gr = WithStart(<<chain(<<1, 2>>, FALSE)>>) /\ Len(tokStream) = 2
    /\ outcome.kind = "StatesExhausted" /\ ~outcome.expectedGiven
    /\ heap.lastTokens # <<>>

(***************************************************************************)
(* Grammar classes and the walks over the symbols of their instances.      *)
(***************************************************************************)
\* the symbols that are reached from the symbols of the set front, seen included
RECURSIVE Reached(_, _, _)
Reached(syms, front, seen) ==
    IF front \subseteq seen THEN seen
    ELSE Reached(syms,
                 UNION {{syms[s].symbols[i] : i \in 1..Len(syms[s].symbols)} :
                           s \in front \ seen},
                 seen \cup front)

\* the leafs below symbol s: the tokens and the definedLater that are reached from it
Leafs(syms, s) ==
    {l \in Reached(syms, {s}, {}) : syms[l].kind \in {"token", "definedLater"}}

\* the symbols and the names of definedSymbols
Registered(g) == {g.definedSymbols[i].symbol : i \in 1..Len(g.definedSymbols)}

RegisteredNames(g) == {g.definedSymbols[i].name : i \in 1..Len(g.definedSymbols)}

\* gr is an instance of the class decl, as grammar.__init__ left it
Instantiated == decl # NoClass /\ gr # NoGrammar /\ walk = NoWalk

\* C32: in an instance of a grammar class every leaf below the start symbol is a
\* token that is a value of definedSymbols, the object the lexer states hold: no
\* definedLater with a defined name is left, and no token that is another object
\* than the defined one, whether the class named the token or held the token itself.
C32_LeafsAreDefinedTokens ==
    Instantiated =>
        \A l \in Leafs(gr.symbols, gr.startSymbol) :
            /\ gr.symbols[l].kind = "definedLater" =>
                   gr.symbols[l].name \notin RegisteredNames(gr)
            /\ gr.symbols[l].kind = "token" => l \in Registered(gr)

\* what holds of every instance: no definedLater with a defined name is left below
\* any defined symbol, and the lexer states hold defined tokens only
C32_NamesAreDefined ==
    Instantiated =>
        /\ \A d \in Registered(gr) : \A l \in Leafs(gr.symbols, d) :
              gr.symbols[l].kind = "definedLater" =>
                  gr.symbols[l].name \notin RegisteredNames(gr)
        /\ \A i \in 1..Len(gr.lexerStates) :
              \A j \in 1..Len(gr.lexerStates[i].tokens) :
                  gr.lexerStates[i].tokens[j] \in Registered(gr)

\* the class with startSymbol = chain(["a", "b"]) is instantiated: both leafs are
\* the defined tokens, and ab is parsed
C32_ByNameReached ==
    /\ decl = ByNameClass /\ pc = "done" /\ Len(text) = 2 /\ outcome.kind = "value"
    /\ Leafs(gr.symbols, gr.startSymbol) \subseteq Registered(gr)

\* the class with startSymbol = chain([a, "b"]) is instantiated: the leaf for a is a
\* token with the regexp of the defined token a and is another object, the lexer
\* state holds the defined one, and the text ab is not parsed
C32_ByObjectReached ==
    /\ decl = ByObjectClass /\ pc = "done" /\ text = <<"a", "b">>
    /\ outcome.kind = "StatesExhausted"
    /\ \E l \in Leafs(gr.symbols, gr.startSymbol) :
          /\ l \notin Registered(gr)
          /\ gr.symbols[l].regexp = gr.symbols[Defined(gr.definedSymbols, "a")].regexp
          /\ Contains(gr.lexerStates[1].tokens, Defined(gr.definedSymbols, "a"))

\* no symbol is twice in the list
Once(visited) ==
    \A i, j \in 1..Len(visited) : visited[i] = visited[j] => i = j

\* symbol s is on a cycle of the table: it is reached from its own symbols
Cyclic(syms, s) ==
    s \in Reached(syms, {syms[s].symbols[i] : i \in 1..Len(syms[s].symbols)}, {})

\* the walk was not ended by the limit of the interpreter's stack (the error of
\* getTokens on a definedLater is NotImplementedError)
EndedByItself == walk.err \notin {"RuntimeError", "ValueError"}

\* C33: every walk over the symbols, getTokens, define and __copy__, ends by itself,
\* on a table with cycles too, and is carried out on each symbol at most once.
C33_WalksVisitOnce ==
    walk.op # "none" => EndedByItself /\ Once(walk.visited)

\* what holds of getTokens and define, which keep the lists gottenFrom and definedIn
C33_GuardedWalksVisitOnce ==
    walk.op \in {"getTokens", "define"} => EndedByItself /\ Once(walk.visited)

\* getTokens and define were called on a symbol that is on a cycle, and went round it
C33_GetTokensOnCycleReached ==
    /\ walk.op = "getTokens" /\ Cyclic(gr.symbols, walk.symbol)
    /\ Len(walk.visited) > 1 /\ walk.tokens # <<>> /\ walk.err = "none"

C33_DefineOnCycleReached ==
    /\ walk.op = "define" /\ Cyclic(gr.symbols, walk.symbol) /\ Len(walk.visited) > 1

\* __copy__ was called on a symbol that is on a cycle: the walk came to the same
\* symbol again and again and was ended by the limit of the stack
C33_CopyOnCycleReached ==
    /\ walk.op = "copy" /\ Cyclic(gr.symbols, walk.symbol)
    /\ walk.err = "RuntimeError" /\ ~Once(walk.visited)

\* __copy__ was called on a symbol without cycles below it that has one symbol
\* twice: the walk ended, and copied that symbol twice
C33_CopyOfSharedReached ==
    /\ walk.op = "copy" /\ decl = SharedClass
    /\ walk.err = "none" /\ ~Once(walk.visited)

(***************************************************************************)
(* The range of a repetition in a BNF text.                                *)
(***************************************************************************)
\* the text has a range, and the numbers n and m of it, each in a list that is
\* empty when the number is left out
HasRange == bnf.fromToPart # <<>>

Low == bnf.fromToPart[1][2]

High == bnf.fromToPart[1][4]

\* the number that a string of digits is the decimal notation of
RECURSIVE Decimal(_)
Decimal(s) ==
    IF s = <<>> THEN 0
    ELSE 10 * Decimal(SubSeq(s, 1, Len(s) - 1)) + Digit[s[Len(s)]]

\* the mergers are through with the repetition, or one of them raised
BnfOver == bnf # NoBnf /\ pc \in {"merged", "done"}

\* the repetition is repeat(x, From = n, To = m), with 0 for n and -1 for m when
\* the number is left out or the text has no range
RangeAsWritten ==
    /\ pc = "merged"
    /\ bnf.ret = <<repeat(1, IF HasRange /\ Low # <<>> THEN Decimal(Low[1]) ELSE 0,
                             IF HasRange /\ High # <<>> THEN Decimal(High[1]) ELSE -1,
                             FALSE)>>

\* the range is written as {,m}
OnlyTo == HasRange /\ Low = <<>> /\ High # <<>>

\* C34: the range before a repetition of a BNF text gives From and To by the numbers
\* that are written: {n,m}*x is repeat(x, n, m), {n,}*x is repeat(x, n, -1), {,m}*x
\* is repeat(x, 0, m), and {,}*x and *x are repeat(x, 0, -1).
C34_RangeByCase == BnfOver => RangeAsWritten

\* what holds: every case but {,m}*x is as written, and {,m}*x raises ValueError
C34_RangeUnlessOnlyTo == BnfOver /\ ~OnlyTo => RangeAsWritten

C34_OnlyToRaises ==
    BnfOver /\ OnlyTo => pc = "done" /\ outcome.kind = "ValueError" /\ bnf.ret = <<>>

\* {1,2}*x, {1,}*x, {,}*x and *x were merged to repeat(x, 1, 2), repeat(x, 1, -1),
\* repeat(x, 0, -1) and repeat(x, 0, -1), and {,2}*x raised ValueError
C34_BothReached ==
    /\ HasRange /\ Low = <<<<"1">>>> /\ High = <<<<"2">>>>
    /\ pc = "merged" /\ bnf.ret = <<repeat(1, 1, 2, FALSE)>>

C34_OnlyFromReached ==
    /\ HasRange /\ Low = <<<<"1">>>> /\ High = <<>>
    /\ pc = "merged" /\ bnf.ret = <<repeat(1, 1, -1, FALSE)>>

C34_NeitherReached ==
    /\ HasRange /\ Low = <<>> /\ High = <<>>
    /\ pc = "merged" /\ bnf.ret = <<repeat(1, 0, -1, FALSE)>>

C34_NoRangeReached ==
    /\ bnf # NoBnf /\ ~HasRange
    /\ pc = "merged" /\ bnf.ret = <<repeat(1, 0, -1, FALSE)>>

C34_OnlyToReached ==
    /\ HasRange /\ Low = <<>> /\ High = <<<<"2">>>>
    /\ pc = "done" /\ outcome.kind = "ValueError"

(***************************************************************************)
(* The assertions of the states of chain, repeat and oneOf.                *)
(***************************************************************************)
\* no assertion of the states failed in the pass or in the evaluation
NoAssertionFailed ==
    heap.err # "AssertionError" /\ outcome.kind # "AssertionError"

NoKeyMissed == heap.err # "KeyError" /\ outcome.kind # "KeyError"

\* the states of chain, repeat and oneOf
SequenceLike(n) == heap.nodes[n].kind \in {"chain", "repeat", "oneOf"}

\* the state works on no possibility, and each of its possibilities has a result and
\* a position
Kept(n) ==
    /\ heap.nodes[n].currentlyWorksOn = 0
    /\ \A i \in 1..Len(heap.nodes[n].possibilities) :
          /\ heap.nodes[n].possibilities[i] \in DOMAIN heap.nodes[n].results
          /\ heap.nodes[n].possibilities[i] \in DOMAIN heap.nodes[n].currentPositions

\* each position of the state is the number of the results that are kept with it
Counted(n) ==
    \A k \in DOMAIN heap.nodes[n].results :
        /\ k \in DOMAIN heap.nodes[n].currentPositions
        /\ heap.nodes[n].currentPositions[k] = Len(heap.nodes[n].results[k])

\* the forks of the last pass
Forks == {i \in 1..Len(heap.log) : heap.log[i].op = "fork"}

\* C35: the assertions of the states of chain, repeat and oneOf never fail: a state
\* works on no possibility when pushToken is called on it, every possibility that it
\* goes through has a result and a position, the copy that fork hands to a parent
\* of these classes has both in the parent, and in a chain state a position is the
\* number of the results kept for it, between the passes and when the state forks.
C35_AssertionsHold ==
    /\ NoAssertionFailed
    /\ heap.err = "none" =>
          \A n \in 1..Len(heap.nodes) :
              /\ SequenceLike(n) => Kept(n)
              /\ heap.nodes[n].kind = "chain" => Counted(n)
    /\ \A i \in Forks :
          heap.nodes[heap.log[i].me].kind = "chain" =>
              heap.log[i].cur = Len(heap.log[i].live)

\* a pass in which a chain state below another chain state forked, after which a
\* chain state holds a possibility at a position after the first
C35_Witness ==
    /\ heap.err = "none" /\ pushed >= 2
    /\ \E i \in Forks :
          /\ heap.nodes[heap.log[i].me].kind = "chain"
          /\ SequenceLike(heap.nodes[heap.log[i].me].parent)
          /\ heap.log[i].cur >= 2
    /\ \E n \in 1..Len(heap.nodes) :
          /\ heap.nodes[n].kind = "chain"
          /\ \E i \in 1..Len(heap.nodes[n].possibilities) :
                heap.nodes[n].currentPositions[heap.nodes[n].possibilities[i]] >= 1

====
